---- MODULE Spec2Model ----
(***************************************************************************)
(* Model of the evaluation core of llm-as-a-judge (src/src/evaluator.py):  *)
(* the response parser, the confidence-weighted aggregation, and the       *)
(* single-document and batch orchestration on the mock, serial and         *)
(* concurrent (asyncio) paths.                                             *)
(*                                                                         *)
(* Text is a sequence of symbols.  The three label words of the answer     *)
(* template are one symbol each: "S" is the score label, "R" the reasoning *)
(* label and "C" the confidence label.  ":" is the ASCII colon, "FW" the   *)
(* fullwidth colon, "NL" the line feed and " " the blank.  Every other     *)
(* symbol is an ordinary character.  Real numbers are exact fractions      *)
(* [n, d] in lowest terms with d > 0.                                      *)
(***************************************************************************)
EXTENDS Integers, Sequences, FiniteSets, TLC

\* ------------------------------------------------------------------ bounds
MaxLines == 3
MaxCriteria == 2
MaxDocs == 2
MaxConcurrent == 2
MaxRequests == 4
MaxScores == 3
MaxFiles == 3
MaxLevels == 3
MaxPrompts == 2
DefaultMaxConcurrent == 5

\* ---------------------------------------------------------------- numbers
Abs(x) == IF x < 0 THEN -x ELSE x

RECURSIVE Gcd(_, _)
Gcd(a, b) == IF b = 0 THEN a ELSE Gcd(b, a % b)

\* A fraction in lowest terms with a positive denominator.
Frac(n, d) ==
    LET g == Gcd(Abs(n), Abs(d))
        s == IF d < 0 THEN -1 ELSE 1
    IN  [n |-> (s * n) \div g, d |-> (s * d) \div g]

FromInt(i) == [n |-> i, d |-> 1]
FAdd(x, y) == Frac(x.n * y.d + y.n * x.d, x.d * y.d)
FMul(x, y) == Frac(x.n * y.n, x.d * y.d)
FDiv(x, y) == Frac(x.n * y.d, x.d * y.n)
FPositive(x) == x.n > 0

RECURSIVE Pow10(_)
Pow10(k) == IF k = 0 THEN 1 ELSE 10 * Pow10(k - 1)

\* ------------------------------------------------------------ text helpers
Digits == {"0", "1", "4", "5", "7", "9"}
DigitVal(c) ==
    CASE c = "0" -> 0 [] c = "1" -> 1 [] c = "4" -> 4
      [] c = "5" -> 5 [] c = "7" -> 7 [] c = "9" -> 9
Whitespace == {" ", "NL"}

Front(s) == SubSeq(s, 1, Len(s) - 1)

\* str.strip(): drop leading and trailing whitespace.
RECURSIVE LStrip(_)
LStrip(s) == IF s # <<>> /\ Head(s) \in Whitespace THEN LStrip(Tail(s)) ELSE s
RECURSIVE RStrip(_)
RStrip(s) == IF s # <<>> /\ s[Len(s)] \in Whitespace THEN RStrip(Front(s)) ELSE s
Strip(s) == RStrip(LStrip(s))

\* str.split(sep): n separators give n + 1 parts, never fewer than one.
RECURSIVE SplitAcc(_, _, _)
SplitAcc(s, sep, cur) ==
    IF s = <<>> THEN <<cur>>
    ELSE IF Head(s) = sep THEN <<cur>> \o SplitAcc(Tail(s), sep, <<>>)
    ELSE SplitAcc(Tail(s), sep, Append(cur, Head(s)))
Split(s, sep) == SplitAcc(s, sep, <<>>)

\* str.split(sep, 1): split at the first separator only.
RECURSIVE FirstIndex(_, _, _)
FirstIndex(s, sep, i) ==
    IF i > Len(s) THEN 0
    ELSE IF s[i] = sep THEN i ELSE FirstIndex(s, sep, i + 1)
SplitOnce(s, sep) ==
    LET i == FirstIndex(s, sep, 1)
    IN  IF i = 0 THEN <<s>>
        ELSE <<SubSeq(s, 1, i - 1), SubSeq(s, i + 1, Len(s))>>

\* str.replace(a, b) for one-symbol a and b.
Replace(s, a, b) == [i \in 1..Len(s) |-> IF s[i] = a THEN b ELSE s[i]]

\* "<label><colon>" in line
HasPair(line, lab, colon) ==
    \E i \in 1..(Len(line) - 1) : line[i] = lab /\ line[i + 1] = colon
HasLabel(line, lab) == HasPair(line, lab, ":") \/ HasPair(line, lab, "FW")

Last(parts) == parts[Len(parts)]

\* int(token): an optional sign and at least one digit; anything else raises
\* ValueError, reported as ok = FALSE.
AllDigits(t) == t # <<>> /\ \A i \in 1..Len(t) : t[i] \in Digits
RECURSIVE DigitsVal(_)
DigitsVal(t) ==
    IF t = <<>> THEN 0 ELSE 10 * DigitsVal(Front(t)) + DigitVal(t[Len(t)])
IntParse(t) ==
    LET neg  == t # <<>> /\ Head(t) = "-"
        body == IF neg THEN Tail(t) ELSE t
    IN  IF AllDigits(body)
        THEN [ok |-> TRUE, val |-> IF neg THEN -DigitsVal(body) ELSE DigitsVal(body)]
        ELSE [ok |-> FALSE, val |-> 0]

\* float(token): an optional sign, digits with at most one point and at
\* least one digit; anything else raises ValueError.
FloatParse(t) ==
    LET neg  == t # <<>> /\ Head(t) = "-"
        body == IF neg THEN Tail(t) ELSE t
        p    == FirstIndex(body, ".", 1)
        ip   == IF p = 0 THEN body ELSE SubSeq(body, 1, p - 1)
        fp   == IF p = 0 THEN <<>> ELSE SubSeq(body, p + 1, Len(body))
        wf   == /\ \A i \in 1..Len(ip) : ip[i] \in Digits
                /\ \A i \in 1..Len(fp) : fp[i] \in Digits
                /\ Len(ip) + Len(fp) > 0
        mag  == DigitsVal(ip) * Pow10(Len(fp)) + DigitsVal(fp)
    IN  IF wf
        THEN [ok |-> TRUE, val |-> Frac(IF neg THEN -mag ELSE mag, Pow10(Len(fp)))]
        ELSE [ok |-> FALSE, val |-> FromInt(0)]

\* ------------------------------------------------------- response parser
\* line.replace(fullwidth colon, ASCII colon)
NormalizeColons(line) == Replace(line, "FW", ":")

\* The score branch: parts[-1].strip() of the colon-normalised line, given to
\* int(); the bare except keeps the current value when int() raises.
ScoreToken(line) == Strip(Last(Split(NormalizeColons(line), ":")))
ScoreBranchNoHandler(acc, line) ==
    LET r == IntParse(ScoreToken(line))
    IN  IF r.ok THEN [acc EXCEPT !.score = r.val] ELSE [acc EXCEPT !.raised = TRUE]
ScoreBranch(acc, line) ==
    LET r == IntParse(ScoreToken(line))
    IN  IF r.ok THEN [acc EXCEPT !.score = r.val] ELSE acc

\* The reasoning branch: split at the first colon of the normalised line.
ReasoningBranch(acc, line) ==
    LET parts == SplitOnce(NormalizeColons(line), ":")
    IN  [acc EXCEPT !.reasoning = IF Len(parts) > 1 THEN Strip(Last(parts)) ELSE <<>>]

\* The confidence branch: parts[-1].strip() given to float().
ConfidenceToken(line) == Strip(Last(Split(NormalizeColons(line), ":")))
ConfidenceBranchClamped(acc, line) ==
    LET r == FloatParse(ConfidenceToken(line))
        c == IF r.val.n < 0 THEN FromInt(0)
             ELSE IF r.val.n > r.val.d THEN FromInt(1) ELSE r.val
    IN  IF r.ok THEN [acc EXCEPT !.confidence = c] ELSE acc
ConfidenceBranch(acc, line) ==
    LET r == FloatParse(ConfidenceToken(line))
    IN  IF r.ok THEN [acc EXCEPT !.confidence = r.val] ELSE acc

\* One iteration of the loop over the lines: an if / elif / elif chain.
ParseLine(acc, line) ==
    IF HasLabel(line, "S") THEN ScoreBranch(acc, line)
    ELSE IF HasLabel(line, "R") THEN ReasoningBranch(acc, line)
    ELSE IF HasLabel(line, "C") THEN ConfidenceBranch(acc, line)
    ELSE acc

RECURSIVE ParseLines(_, _)
ParseLines(acc, lines) ==
    IF lines = <<>> THEN acc ELSE ParseLines(ParseLine(acc, Head(lines)), Tail(lines))

ResponseLines(response) == Split(Strip(response), "NL")

\* The defaults: score 3, empty reasoning, confidence 0.5.  "raised" records
\* an exception leaving the function.
ParseDefaults(criterion_name) ==
    [criterion_name |-> criterion_name, score |-> 3, reasoning |-> <<>>,
     confidence |-> Frac(5, 10), raised |-> FALSE]

parse_llm_response(response, criterion_name) ==
    ParseLines(ParseDefaults(criterion_name), ResponseLines(response))

\* ------------------------------------------------------------ aggregator
RECURSIVE TotalWeightedScore(_)
TotalWeightedScore(scores) ==
    IF scores = <<>> THEN FromInt(0)
    ELSE FAdd(FMul(FromInt(Head(scores).score), Head(scores).confidence),
              TotalWeightedScore(Tail(scores)))

RECURSIVE TotalConfidence(_)
TotalConfidence(scores) ==
    IF scores = <<>> THEN FromInt(0)
    ELSE FAdd(Head(scores).confidence, TotalConfidence(Tail(scores)))

\* total_weighted_score / total_confidence if total_confidence > 0 else 0
OverallScoreNoGuard(scores) ==
    IF TotalConfidence(scores).n # 0
    THEN FDiv(TotalWeightedScore(scores), TotalConfidence(scores))
    ELSE FromInt(0)
OverallScore(scores) ==
    IF FPositive(TotalConfidence(scores))
    THEN FDiv(TotalWeightedScore(scores), TotalConfidence(scores))
    ELSE FromInt(0)

\* ------------------------------------------------------------------ state
VARIABLES
    criteria,        \* the Rubric: the sequence of criterion names
    documents,       \* the documents argument of the call, as the caller gave it
    directory,       \* evaluate_directory: the directory on disk
    recursive,       \* evaluate_directory: the recursive argument
    output_csv,      \* evaluate_batch: a CSV path was given
    include_reasoning,
    csv_out,         \* the CSV text written by the call
    doc_items,       \* the normalised (id, content) pairs of the call
    llm,             \* "mock" (nothing configured), "function" or "provider"
    loop_running,    \* the caller is inside a running event loop
    show_progress,
    max_concurrent,
    op,              \* "evaluate_document" or "evaluate_batch"
    bpc,             \* position in evaluate_batch (or the single call)
    dpc,             \* position in evaluate_document
    cur,             \* index of the document of the serial loop
    crit,            \* index of the next criterion of _evaluate_sync
    scores,          \* the local score list of the running evaluation
    replies,         \* the replies those scores were parsed from
    aresp,           \* evaluate_document_async: replies in arrival order
    loop_active,     \* run_until_complete is running the event loop
    requests,        \* requests the backend received, per (document, criterion)
    call_saw_error,  \* a backend call raised during the running evaluate_document
    swallowed,       \* some evaluate_document returned a result after an error
    results,
    error,           \* the error the call raised to its caller
    failures,        \* some backend call raised
    tstate,          \* _evaluate_batch_async: state of each document task
    tresp,           \* replies of each document task, in arrival order
    tresult,         \* result of each finished document task
    completed,       \* document tasks in completion order
    semaphore,       \* free slots of the admission gate
    pending_exc,     \* first exception on its way to the awaiting batch
    response,        \* parser specification: the response text
    parsed,          \* parser specification: parse_llm_response(response)
    rubric,          \* a Criteria object built by the caller
    payload,         \* the dict or JSON text handed to from_dict / from_json
    loaded,          \* the Criteria object from_dict / from_json returned
    exported,        \* to_json() of the loaded object
    prompts          \* the prompts generate_prompt returned, in call order

rubricVars == <<rubric, payload, loaded, exported, prompts>>
inputVars == <<criteria, llm, loop_running, show_progress, max_concurrent, op,
               directory, recursive, output_csv, include_reasoning, rubricVars>>
cfgVars == <<inputVars, documents, doc_items>>
docVars == <<cur, dpc, crit, scores, replies, aresp, loop_active, call_saw_error>>
taskVars == <<tstate, tresp, tresult, completed, semaphore, pending_exc>>
parseVars == <<response, parsed>>
vars == <<cfgVars, docVars, taskVars, parseVars, bpc, requests, swallowed, results, csv_out,
          error, failures>>

\* ----------------------------------------------------------- input domains
CriterionNames == {"clarity", "coherence"}
DocIds == {"doc_A", "doc_B"}
Errors == {"RuntimeError", "APIError"}

\* Reply texts of the backend: a well-formed reply (score 4, reasoning x,
\* confidence .5) and a reply that carries a zero confidence only.
WellFormedReply == <<"S", ":", " ", "4", "NL", "R", ":", " ", "x", "NL", "C", ":", " ", ".", "5">>
ZeroConfidenceReply == <<"C", "FW", "0">>
ReplyTexts == {WellFormedReply, ZeroConfidenceReply}

SeqsUpTo(S, n) == UNION {[1..m -> S] : m \in 0..n}
\* The documents of a call: any ids, repeated or not; the content of the i-th
\* document is a text of its own, written <<"document", i>>.
DocItemSeqs(n) ==
    UNION {{[i \in 1..m |-> [id |-> ids[i], content |-> <<"document", i>>]] :
              ids \in [1..m -> DocIds]} : m \in 1..n}

NC == Len(criteria)
ND == Len(doc_items)

\* --------------------------------------------------------------- results
CriterionScore(p) ==
    [criterion_name |-> p.criterion_name, score |-> p.score,
     reasoning |-> p.reasoning, confidence |-> p.confidence]

\* EvaluationResult(...) of the live paths.  "document", "replies", "order"
\* and "path" record what the result was computed from: the content, the
\* replies that were parsed, the order in which they arrived and the path
\* ("mock", "serial" or "concurrent") that built it.
EvaluationResult(d, scs, reps, ord, model, path) ==
    [document_id |-> doc_items[d].id, scores |-> scs,
     overall_score |-> OverallScore(scs), model_used |-> model,
     document |-> doc_items[d].content, replies |-> reps, order |-> ord,
     path |-> path]

_mock_evaluate_from_content(d) ==
    [document_id |-> doc_items[d].id,
     scores |-> [k \in 1..NC |->
                   [criterion_name |-> criteria[k],
                    score |-> 2 + doc_items[d].content[2],
                    reasoning |-> <<"Mock evaluation result">>,
                    confidence |-> Frac(7, 10)]],
     overall_score |-> Frac(30, 10), model_used |-> "mock",
     document |-> doc_items[d].content, replies |-> <<>>, order |-> <<>>,
     path |-> "mock"]
_mock_evaluate(d) ==
    [document_id |-> doc_items[d].id,
     scores |-> [k \in 1..NC |->
                   [criterion_name |-> criteria[k], score |-> 3,
                    reasoning |-> <<"Mock evaluation result">>,
                    confidence |-> Frac(7, 10)]],
     overall_score |-> Frac(30, 10), model_used |-> "mock",
     document |-> doc_items[d].content, replies |-> <<>>, order |-> <<>>,
     path |-> "mock"]

\* generate_prompt(document, criterion): what the request is about.
generate_prompt(d, k) == [document |-> doc_items[d].content, criterion |-> k]
Reply(d, k, text) == [prompt |-> generate_prompt(d, k), text |-> text]

IssueAll(reqs, d) == [reqs EXCEPT ![d] = [k \in 1..NC |-> reqs[d][k] + 1]]
IssueOne(reqs, d, k) == [reqs EXCEPT ![d][k] = reqs[d][k] + 1]

\* ------------------------------------------------------------------ CSV
\* A CSV text is a sequence of rows and a row a sequence of fields; the
\* first row of a text that has one is the header.  f"{x:.2f}" is the
\* number of hundredths nearest to x (ties to the even one).
Format2(x) ==
    LET q == (100 * x.n) \div x.d
        r == 100 * x.n - q * x.d
    IN  [hundredths |-> IF 2 * r < x.d THEN q
                        ELSE IF 2 * r > x.d THEN q + 1
                        ELSE IF q % 2 = 0 THEN q ELSE q + 1]

\* `value or ''` of an optional text.
OrEmptyKeepsNone(value) == value
OrEmpty(value) == IF value = "None" THEN "" ELSE value

CsvHeaders(with_reasoning) ==
    <<"document_id", "timestamp", "model_used", "criterion_name", "score", "confidence">>
        \o (IF with_reasoning THEN <<"reasoning">> ELSE <<>>) \o <<"overall_score">>

\* The row of one criterion score, its fields in header order.
CsvRow(result, score, with_reasoning) ==
    <<OrEmpty(result.document_id), "timestamp.isoformat()", OrEmpty(result.model_used),
      score.criterion_name, score.score, score.confidence>>
        \o (IF with_reasoning THEN <<score.reasoning>> ELSE <<>>)
        \o <<Format2(result.overall_score)>>

CsvRows(result, with_reasoning) ==
    [k \in 1..Len(result.scores) |-> CsvRow(result, result.scores[k], with_reasoning)]

\* EvaluationResult.to_csv(include_reasoning)
to_csv(result, with_reasoning) ==
    <<CsvHeaders(with_reasoning)>> \o CsvRows(result, with_reasoning)

RECURSIVE AllCsvRows(_, _)
AllCsvRows(rs, with_reasoning) ==
    IF rs = <<>> THEN <<>>
    ELSE CsvRows(Head(rs), with_reasoning) \o AllCsvRows(Tail(rs), with_reasoning)

\* _save_batch_results_csv(results, output_path, include_reasoning): the
\* file is opened for writing in any case and filled only `if results`.
_save_batch_results_csv(rs, with_reasoning) ==
    [written |-> TRUE,
     rows |-> IF rs = <<>> THEN <<>>
              ELSE <<CsvHeaders(with_reasoning)>> \o AllCsvRows(rs, with_reasoning)]

NoCsv == [written |-> FALSE, rows |-> <<>>]

\* Lines 344-346 of evaluate_batch, reached when the batch has its results.
SaveCsv(rs) ==
    csv_out' = IF output_csv THEN _save_batch_results_csv(rs, include_reasoning)
               ELSE csv_out

\* ---------------------------------------------------- evaluate_document
\* No evaluate_document call is running.
Idle(reqs, saw) ==
    /\ dpc' = "idle" /\ crit' = 1 /\ scores' = <<>> /\ replies' = <<>>
    /\ aresp' = <<>> /\ loop_active' = FALSE /\ cur' = cur
    /\ requests' = reqs /\ call_saw_error' = saw

\* evaluate_document(content, document_id) is entered for document d: the
\* provider's generate is a coroutine function, so with a provider the call
\* takes _evaluate_sync inside a running loop and otherwise runs
\* evaluate_document_async to completion, which issues every request at once.
EnterDocument(d, reqs) ==
    /\ cur' = d /\ crit' = 1 /\ scores' = <<>> /\ replies' = <<>>
    /\ call_saw_error' = FALSE
    /\ IF llm = "provider" /\ ~loop_running
       THEN /\ dpc' = "try_async" /\ loop_active' = TRUE
            /\ aresp' = <<>> /\ requests' = IssueAll(reqs, d)
       ELSE /\ dpc' = IF llm = "provider" THEN "try_sync" ELSE "plain"
            /\ loop_active' = FALSE /\ aresp' = <<>> /\ requests' = reqs

\* evaluate_document returns r to its caller: the single call ends, or the
\* loop of _evaluate_batch_sync appends r and goes on with the next document.
DocumentReturned(r, reqs) ==
    /\ swallowed' = (swallowed \/ call_saw_error)
    /\ results' = Append(results, r)
    /\ error' = error
    /\ IF op = "evaluate_document"
       THEN bpc' = "returned" /\ csv_out' = csv_out /\ Idle(reqs, call_saw_error)
       ELSE IF cur = ND
       THEN bpc' = "returned" /\ SaveCsv(results') /\ Idle(reqs, call_saw_error)
       ELSE bpc' = bpc /\ csv_out' = csv_out /\ EnterDocument(cur + 1, reqs)

\* evaluate_document raises e to its caller.  Inside evaluate_batch's try
\* block a RuntimeError starts _evaluate_batch_sync over; every other error
\* ends the call.
DocumentRaised(e, reqs) ==
    /\ swallowed' = swallowed
    /\ results' = <<>> /\ csv_out' = csv_out
    /\ IF bpc = "sync_try" /\ e = "RuntimeError"
       THEN bpc' = "sync_fallback" /\ error' = error /\ EnterDocument(1, reqs)
       ELSE bpc' = "raised" /\ error' = e /\ Idle(reqs, TRUE)

SyncModel == IF llm = "function" THEN "custom_llm" ELSE "model_name"
RubricOrder == [k \in 1..NC |-> k]

\* One iteration of the loop of _evaluate_sync whose backend call returns
\* text: parse, append, and after the last criterion build the result.
SyncCall(text) ==
    /\ dpc \in {"try_sync", "fallback", "plain"}
    /\ llm # "mock" /\ crit <= NC
    /\ LET scs  == Append(scores,
                     CriterionScore(parse_llm_response(text, criteria[crit])))
           reps == Append(replies, Reply(cur, crit, text))
           reqs == IssueOne(requests, cur, crit)
       IN  IF crit < NC
           THEN /\ crit' = crit + 1 /\ scores' = scs /\ replies' = reps
                /\ requests' = reqs
                /\ UNCHANGED <<cur, dpc, aresp, loop_active, call_saw_error, bpc,
                               swallowed, results, csv_out, error>>
           ELSE DocumentReturned(
                    EvaluationResult(cur, scs, reps, RubricOrder, SyncModel, "serial"), reqs)
    /\ UNCHANGED <<cfgVars, taskVars, parseVars, failures>>

\* The backend call of _evaluate_sync raises e.  At line 177 (inside the try
\* of evaluate_document) a RuntimeError is caught and _evaluate_sync is
\* called again at line 183.
SyncCallError(e) ==
    /\ dpc \in {"try_sync", "fallback", "plain"}
    /\ llm # "mock" /\ crit <= NC
    /\ failures' = TRUE
    /\ LET reqs == IssueOne(requests, cur, crit)
       IN  IF dpc = "try_sync" /\ e = "RuntimeError"
           THEN /\ dpc' = "fallback" /\ crit' = 1 /\ scores' = <<>>
                /\ replies' = <<>> /\ call_saw_error' = TRUE
                /\ requests' = reqs
                /\ UNCHANGED <<cur, aresp, loop_active, bpc, swallowed, results, csv_out, error>>
           ELSE DocumentRaised(e, reqs)
    /\ UNCHANGED <<cfgVars, taskVars, parseVars>>

\* _evaluate_sync without a backend call: the mock path, or a live path on a
\* Rubric without criteria (model_used stays None).
EvaluateWithoutCall ==
    /\ dpc \in {"try_sync", "fallback", "plain"}
    /\ llm = "mock" \/ NC = 0
    /\ DocumentReturned(
           IF llm = "mock" THEN _mock_evaluate(cur)
           ELSE EvaluationResult(cur, <<>>, <<>>, <<>>, "None", "serial"), requests)
    /\ UNCHANGED <<cfgVars, taskVars, parseVars, failures>>

\* ----------------------------------------------- evaluate_document_async
NoResult == [document_id |-> "none"]
Arrived(resp) == {resp[j].k : j \in 1..Len(resp)}
PositionOf(resp, k) == (CHOOSE j \in 1..Len(resp) : resp[j].k = k)
ArrivalOrder(resp) == [j \in 1..Len(resp) |-> resp[j].k]

\* asyncio.gather(*tasks): the replies in the order of the tasks, whatever
\* the order in which they arrived.
GatherByArrival(resp) == resp
Gather(resp) == [k \in 1..Len(resp) |-> resp[PositionOf(resp, k)]]

\* Lines 249-251: for (criterion, _), response in zip(prompts, responses).
ParsedScoresSkipDefaults(responses) ==
    LET all == [j \in 1..Len(responses) |->
                  CriterionScore(parse_llm_response(responses[j].text, criteria[j]))]
    IN  SelectSeq(all, LAMBDA sc : sc.reasoning # <<>>)
ParsedScores(responses) ==
    [j \in 1..Len(responses) |->
       CriterionScore(parse_llm_response(responses[j].text, criteria[j]))]

\* Lines 237-264 of evaluate_document_async for document d, once every
\* request has its reply.
AsyncResult(d, resp) ==
    LET responses == Gather(resp)
    IN  EvaluationResult(d, ParsedScores(responses),
            [j \in 1..Len(responses) |-> Reply(d, responses[j].k, responses[j].text)],
            ArrivalOrder(resp), "model_name", "concurrent")

\* A reply to one of the requests of run_until_complete(evaluate_document_async).
AsyncDocReply(k, text) ==
    /\ dpc = "try_async" /\ loop_active
    /\ k \in 1..NC /\ k \notin Arrived(aresp)
    /\ LET resp == Append(aresp, [k |-> k, text |-> text])
       IN  IF Len(resp) < NC
           THEN /\ aresp' = resp
                /\ UNCHANGED <<cur, dpc, crit, scores, replies, loop_active,
                               call_saw_error, bpc, requests, swallowed, results, csv_out, error>>
           ELSE DocumentReturned(AsyncResult(cur, resp), requests)
    /\ UNCHANGED <<cfgVars, taskVars, parseVars, failures>>

\* One of those requests raises e: gather raises it at once.  The except
\* RuntimeError of evaluate_document (line 181) then calls _evaluate_sync.
AsyncDocError(k, e) ==
    /\ dpc = "try_async" /\ loop_active
    /\ k \in 1..NC /\ k \notin Arrived(aresp)
    /\ failures' = TRUE
    /\ IF e = "RuntimeError"
       THEN /\ dpc' = "fallback" /\ crit' = 1 /\ scores' = <<>> /\ replies' = <<>>
            /\ aresp' = <<>> /\ loop_active' = FALSE /\ call_saw_error' = TRUE
            /\ UNCHANGED <<cur, bpc, requests, swallowed, results, csv_out, error>>
       ELSE DocumentRaised(e, requests)
    /\ UNCHANGED <<cfgVars, taskVars, parseVars>>

\* evaluate_document_async on a Rubric without criteria: gather() of nothing.
AsyncDocEmpty ==
    /\ dpc = "try_async" /\ loop_active /\ NC = 0
    /\ DocumentReturned(AsyncResult(cur, <<>>), requests)
    /\ UNCHANGED <<cfgVars, taskVars, parseVars, failures>>

\* ------------------------------------------------- _evaluate_batch_async
InFlight == {i \in 1..ND : tstate[i] = "running"}

\* Once the batch has raised nothing awaits its tasks any more: they stay on
\* the loop and run whenever the loop runs again, but what they compute is
\* never read: such a task is followed from its start to its end (with a
\* result or with an error) in one step, and its result is dropped.
Abandoned == bpc # "async"

\* async with semaphore: task i takes a free slot (waiters are served in
\* order) and starts evaluate_document_async, which issues every request.
AcquireUnguarded(i) ==
    /\ loop_active /\ tstate[i] = "queued"
    /\ \A j \in 1..(i - 1) : tstate[j] # "queued"
Acquire(i) ==
    /\ loop_active /\ tstate[i] = "queued"
    /\ semaphore > 0
    /\ \A j \in 1..(i - 1) : tstate[j] # "queued"

TaskStart(i) ==
    /\ Acquire(i)
    /\ IF NC = 0
       THEN /\ tstate' = [tstate EXCEPT ![i] = "done"]
            /\ tresult' = IF Abandoned THEN tresult
                           ELSE [tresult EXCEPT ![i] = AsyncResult(i, <<>>)]
            /\ completed' = IF Abandoned THEN completed ELSE Append(completed, i)
            /\ UNCHANGED <<semaphore, requests>>
       ELSE /\ tstate' = [tstate EXCEPT ![i] = "running"]
            /\ semaphore' = semaphore - 1
            /\ requests' = IssueAll(requests, i)
            /\ UNCHANGED <<tresult, completed>>
    /\ UNCHANGED <<cfgVars, docVars, parseVars, tresp, pending_exc, bpc, swallowed,
                   results, csv_out, error, failures>>

\* The free slots once a task leaves its `async with semaphore` block:
\* __aexit__ releases the slot whether the block returned or raised.
SlotsAfterExitLeakOnError(slots, raised) == IF raised THEN slots ELSE slots + 1
SlotsAfterExitKept(slots, raised) == slots
SlotsAfterExit(slots, raised) == slots + 1

\* A reply to a request of task i; the last one ends the task with a result
\* and leaves the async with block, which releases the slot.
TaskReply(i, k, text) ==
    /\ loop_active /\ tstate[i] = "running"
    /\ k \in 1..NC /\ k \notin Arrived(tresp[i])
    /\ Abandoned => (k = 1 /\ text = WellFormedReply)
    /\ LET resp == Append(tresp[i], [k |-> k, text |-> text])
       IN  IF Len(resp) < NC /\ ~Abandoned
           THEN /\ tresp' = [tresp EXCEPT ![i] = resp]
                /\ UNCHANGED <<tstate, tresult, completed, semaphore>>
           ELSE /\ tresp' = [tresp EXCEPT ![i] = <<>>]
                /\ tstate' = [tstate EXCEPT ![i] = "done"]
                /\ tresult' = IF Abandoned THEN tresult
                               ELSE [tresult EXCEPT ![i] = AsyncResult(i, resp)]
                /\ completed' = IF Abandoned THEN completed ELSE Append(completed, i)
                /\ semaphore' = SlotsAfterExit(semaphore, FALSE)
    /\ UNCHANGED <<cfgVars, docVars, parseVars, pending_exc, bpc, requests, swallowed,
                   results, csv_out, error, failures>>

\* A request of task i raises e: the task ends with e and releases the slot;
\* the first such exception travels to the coroutine awaiting the batch.
TaskError(i, k, e) ==
    /\ loop_active /\ tstate[i] = "running"
    /\ k \in 1..NC /\ k \notin Arrived(tresp[i])
    /\ tresp' = [tresp EXCEPT ![i] = <<>>]
    /\ tstate' = [tstate EXCEPT ![i] = "failed"]
    /\ completed' = IF Abandoned THEN completed ELSE Append(completed, i)
    /\ Abandoned => (k = 1 /\ e = "APIError")
    /\ semaphore' = SlotsAfterExit(semaphore, TRUE)
    /\ failures' = TRUE
    /\ pending_exc' = IF bpc = "async" /\ pending_exc = "none" THEN e ELSE pending_exc
    /\ UNCHANGED <<cfgVars, docVars, parseVars, tresult, bpc, requests, swallowed,
                   results, csv_out, error>>

\* results.sort(key=lambda r: doc_items.index(next(item for item in
\* doc_items if item[0] == r.document_id))): a stable sort.
FirstItemWithId(id) ==
    doc_items[CHOOSE j \in 1..ND :
                /\ doc_items[j].id = id
                /\ \A h \in 1..(j - 1) : doc_items[h].id # id]
IndexOf(item) ==
    CHOOSE j \in 1..ND :
        doc_items[j] = item /\ \A h \in 1..(j - 1) : doc_items[h] # item
SortKey(r) == IndexOf(FirstItemWithId(r.document_id))

RECURSIVE InsertByKey(_, _)
InsertByKey(sorted, r) ==
    IF sorted = <<>> THEN <<r>>
    ELSE IF SortKey(Last(sorted)) <= SortKey(r) THEN Append(sorted, r)
    ELSE Append(InsertByKey(Front(sorted), r), Last(sorted))
RECURSIVE SortResults(_)
SortResults(rs) ==
    IF rs = <<>> THEN <<>> ELSE InsertByKey(SortResults(Front(rs)), Last(rs))

\* Lines 387-403: with a progress bar the results are collected in
\* completion order and sorted, without one gather returns them in task order.
CollectedResults ==
    IF show_progress
    THEN SortResults([j \in 1..Len(completed) |-> tresult[completed[j]]])
    ELSE [i \in 1..ND |-> tresult[i]]

\* Every task ended with a result: _evaluate_batch_async returns.
BatchGathered ==
    /\ bpc = "async"
    /\ \A i \in 1..ND : tstate[i] = "done"
    /\ results' = CollectedResults
    /\ SaveCsv(results')
    /\ bpc' = "returned"
    /\ loop_active' = FALSE
    /\ UNCHANGED <<cfgVars, taskVars, parseVars, cur, dpc, crit, scores, replies, aresp,
                   call_saw_error, requests, swallowed, error, failures>>

\* The first exception reaches run_until_complete (line 334).  The except
\* RuntimeError of evaluate_batch (line 337) calls _evaluate_batch_sync; the
\* tasks left behind stay on the loop.
BatchRaised ==
    /\ bpc = "async" /\ pending_exc # "none"
    /\ pending_exc' = "none"
    /\ swallowed' = swallowed
    /\ results' = <<>> /\ csv_out' = csv_out
    /\ IF pending_exc = "RuntimeError"
       THEN bpc' = "sync_fallback" /\ error' = error /\ EnterDocument(1, requests)
       ELSE bpc' = "raised" /\ error' = pending_exc /\ Idle(requests, call_saw_error)
    /\ tresp' = [i \in 1..ND |-> <<>>]
    /\ tresult' = [i \in 1..ND |-> NoResult]
    /\ completed' = <<>>
    /\ UNCHANGED <<cfgVars, parseVars, tstate, semaphore, failures>>

\* ------------------------------------------------------------ entry points

\* The documents argument of evaluate_batch is a list of contents ("list"),
\* a list of (id, content) pairs ("tuples") or a dict from id to content
\* ("dict", its items in iteration order); for evaluate_document it is the
\* (document_id, document) of the call ("document").
DocNumberIds == <<"doc_0", "doc_1", "doc_2", "doc_3">>
\* f"doc_{i}"
GeneratedId(i) == DocNumberIds[i + 1]

\* Lines 312-322: an empty list raises ValueError.
NormalizeRaises(docs) == docs.form \in {"list", "tuples"} /\ docs.items = <<>>

NormalizeFromOne(docs) ==
    IF docs.form = "list"
    THEN [i \in 1..Len(docs.items) |-> [id |-> GeneratedId(i), content |-> docs.items[i]]]
    ELSE docs.items
Normalize(docs) ==
    IF docs.form = "list"
    THEN [i \in 1..Len(docs.items) |-> [id |-> GeneratedId(i - 1), content |-> docs.items[i]]]
    ELSE docs.items

ZeroRequests(n) == [d \in 1..n |-> [k \in 1..NC |-> 0]]
NewTasks(n, st) ==
    /\ tstate' = [i \in 1..n |-> st]
    /\ tresp' = [i \in 1..n |-> <<>>]
    /\ tresult' = [i \in 1..n |-> NoResult]
    /\ completed' = <<>> /\ pending_exc' = "none"

\* A call that raises before it evaluates anything.
RaiseInputError ==
    /\ bpc' = "raised" /\ error' = "ValueError"
    /\ UNCHANGED <<doc_items, docVars, taskVars, requests, results, csv_out>>

\* evaluate_document(document, document_id=...) called by the user.
evaluate_document ==
    /\ bpc = "start" /\ op = "evaluate_document"
    /\ bpc' = "single"
    /\ doc_items' = documents.items
    /\ EnterDocument(1, ZeroRequests(1))
    /\ NewTasks(1, "new") /\ semaphore' = semaphore
    /\ UNCHANGED <<inputVars, documents, parseVars, swallowed, results, csv_out, error,
                   failures>>

\* evaluate_batch(docs, ...), lines 312-348: the input is normalised; with a
\* provider the concurrent batch runs on an idle loop and the serial one
\* inside a running loop, both inside the try block; without a provider the
\* serial batch runs outside it.  A batch of no documents returns at once.
BatchBody(docs) ==
    IF NormalizeRaises(docs) THEN RaiseInputError
    ELSE LET items == Normalize(docs)
             n == Len(items)
         IN  /\ doc_items' = items
             /\ error' = error
             /\ IF llm = "provider" /\ ~loop_running
                THEN /\ bpc' = "async" /\ loop_active' = TRUE
                     /\ NewTasks(n, "queued")
                     /\ semaphore' = max_concurrent
                     /\ requests' = ZeroRequests(n)
                     /\ UNCHANGED <<cur, dpc, crit, scores, replies, aresp,
                                    call_saw_error, results, csv_out>>
                ELSE /\ NewTasks(n, "new") /\ semaphore' = semaphore
                     /\ IF n = 0
                        THEN /\ bpc' = "returned" /\ results' = <<>>
                             /\ SaveCsv(results')
                             /\ requests' = ZeroRequests(n)
                             /\ UNCHANGED docVars
                        ELSE /\ bpc' = IF llm = "provider" THEN "sync_try" ELSE "sync"
                             /\ EnterDocument(1, ZeroRequests(n))
                             /\ UNCHANGED <<results, csv_out>>

evaluate_batch ==
    /\ bpc = "start" /\ op = "evaluate_batch"
    /\ BatchBody(documents)
    /\ UNCHANGED <<inputVars, documents, parseVars, swallowed, failures>>

\* ---------------------------------------------------- evaluate_directory
\* The files a directory can hold: a path, its depth below the directory and
\* whether the pattern matches its name.  The content of a file is a text of
\* its own.
FilePaths == <<"dir/a.txt", "dir/b.pdf", "dir/sub/c.txt", "dir/d.txt">>
FileDepth(f) == IF FilePaths[f.path] = "dir/sub/c.txt" THEN 2 ELSE 1
FileMatches(f) == FilePaths[f.path] # "dir/b.pdf"
FileContent(f) == <<"document", f.path>>

\* path.rglob(pattern) / path.glob(pattern), in the order of the scan.
Glob(dir, rec) ==
    SelectSeq(dir.files, LAMBDA f : FileMatches(f) /\ (rec \/ FileDepth(f) = 1))

\* Lines 472-479: the dict of the files that could be read.
ReadDocumentsUntilFailure(files) ==
    LET bad == {i \in 1..Len(files) : ~files[i].readable}
        stop == IF bad = {} THEN Len(files)
                ELSE (CHOOSE i \in bad : \A h \in bad : i <= h) - 1
    IN  [form |-> "dict",
         items |-> [i \in 1..stop |->
                      [id |-> FilePaths[files[i].path], content |-> FileContent(files[i])]]]
ReadDocuments(files) ==
    LET ok == SelectSeq(files, LAMBDA f : f.readable)
    IN  [form |-> "dict",
         items |-> [i \in 1..Len(ok) |->
                      [id |-> FilePaths[ok[i].path], content |-> FileContent(ok[i])]]]

DirectoryRaisesNever(dir, rec) == FALSE
DirectoryRaises(dir, rec) ==
    \/ ~dir.exists
    \/ Glob(dir, rec) = <<>>
    \/ ReadDocuments(Glob(dir, rec)).items = <<>>

\* evaluate_directory(directory_path, pattern, recursive, **kwargs)
evaluate_directory ==
    /\ bpc = "start" /\ op = "evaluate_directory"
    /\ IF DirectoryRaises(directory, recursive)
       THEN documents' = documents /\ RaiseInputError
       ELSE /\ documents' = ReadDocuments(Glob(directory, recursive))
            /\ BatchBody(documents')
    /\ UNCHANGED <<inputVars, parseVars, swallowed, failures>>

\* ------------------------------------------------------ the specification
ParseIdle ==
    /\ response = <<>>
    /\ parsed = parse_llm_response(<<>>, "clarity")

\* Nothing has been called yet.
NotCalled ==
    /\ doc_items = <<>> /\ requests = <<>>
    /\ bpc = "start" /\ dpc = "idle" /\ cur = 1 /\ crit = 1
    /\ scores = <<>> /\ replies = <<>> /\ aresp = <<>>
    /\ loop_active = FALSE /\ call_saw_error = FALSE /\ swallowed = FALSE
    /\ results = <<>> /\ error = "none" /\ failures = FALSE
    /\ csv_out = NoCsv
    /\ tstate = <<>> /\ tresp = <<>> /\ tresult = <<>>
    /\ completed = <<>> /\ semaphore = 0 /\ pending_exc = "none"
    /\ ParseIdle

NoDirectory == [exists |-> FALSE, files |-> <<>>]
\* No Criteria object has been exported or loaded.
NoCriteria == [made |-> FALSE, criteria |-> <<>>]
NoPayload == [kind |-> "none", data |-> <<>>]
NotExported == [made |-> FALSE, text |-> <<>>]
NoRubricCall ==
    /\ rubric = NoCriteria /\ payload = NoPayload
    /\ loaded = NoCriteria /\ exported = NotExported
    /\ prompts = <<>>

\* evaluate_document on one document, evaluate_batch on a list of pairs.
Init ==
    /\ NoRubricCall
    /\ criteria \in SeqsUpTo(CriterionNames, MaxCriteria)
    /\ op \in {"evaluate_document", "evaluate_batch"}
    /\ documents \in
         {[form |-> IF op = "evaluate_batch" THEN "tuples" ELSE "document", items |-> items] :
             items \in DocItemSeqs(IF op = "evaluate_batch" THEN MaxDocs ELSE 1)}
    /\ Len(criteria) * Len(documents.items) <= MaxRequests
    /\ directory = NoDirectory /\ recursive = FALSE
    /\ output_csv = FALSE /\ include_reasoning = TRUE
    /\ llm \in {"mock", "function", "provider"}
    /\ loop_running \in (IF llm = "provider" THEN BOOLEAN ELSE {FALSE})
    /\ show_progress \in (IF op = "evaluate_batch" THEN BOOLEAN ELSE {FALSE})
    /\ max_concurrent \in
         (IF op = "evaluate_batch" /\ llm = "provider" /\ ~loop_running
          THEN 0..MaxConcurrent ELSE {DefaultMaxConcurrent})
    /\ NotCalled

Next ==
    \/ evaluate_document
    \/ evaluate_batch
    \/ \E text \in ReplyTexts : SyncCall(text)
    \/ \E e \in Errors : SyncCallError(e)
    \/ EvaluateWithoutCall
    \/ \E k \in 1..NC, text \in ReplyTexts : AsyncDocReply(k, text)
    \/ \E k \in 1..NC, e \in Errors : AsyncDocError(k, e)
    \/ AsyncDocEmpty
    \/ \E i \in 1..ND : TaskStart(i)
    \/ \E i \in 1..ND, k \in 1..NC, text \in ReplyTexts : TaskReply(i, k, text)
    \/ \E i \in 1..ND, k \in 1..NC, e \in Errors : TaskError(i, k, e)
    \/ BatchGathered
    \/ BatchRaised

Spec == Init /\ [][Next]_vars

\* ------------------------------------ batches, directories and CSV files
\* evaluate_batch on each form of the documents argument and
\* evaluate_directory on a directory, with and without a CSV path.
InjectiveSeqs(S, n) ==
    {q \in SeqsUpTo(S, n) : \A i, j \in 1..Len(q) : q[i] = q[j] => i = j}
ContentsOf(ids) == [i \in 1..Len(ids) |-> [id |-> ids[i], content |-> <<"document", i>>]]
DocumentsArguments ==
    {[form |-> "list", items |-> [i \in 1..m |-> <<"document", i>>]] : m \in 0..MaxDocs}
      \cup {[form |-> "dict", items |-> ContentsOf(ids)] : ids \in InjectiveSeqs(DocIds, MaxDocs)}
      \cup {[form |-> "tuples", items |-> items] : items \in DocItemSeqs(MaxDocs)}

\* Directories: up to MaxFiles files in the order of the scan, each readable
\* or not; a directory that does not exist has no files.
Directories ==
    {NoDirectory} \cup
    {[exists |-> TRUE,
      files |-> [i \in 1..Len(ps) |-> [path |-> ps[i], readable |-> i \notin bad]]] :
        ps \in InjectiveSeqs(1..Len(FilePaths), MaxFiles), bad \in SUBSET (1..MaxFiles)}

Rubrics == {SubSeq(<<"clarity", "coherence", "clarity">>, 1, n) : n \in 0..MaxCriteria}

BatchInit ==
    /\ NoRubricCall
    /\ criteria \in Rubrics
    /\ op = "evaluate_batch"
    /\ documents \in DocumentsArguments
    /\ Len(criteria) * Len(documents.items) <= MaxRequests
    /\ directory = NoDirectory /\ recursive = FALSE
    /\ llm \in {"mock", "function", "provider"}
    /\ loop_running = FALSE
    /\ show_progress \in BOOLEAN
    /\ max_concurrent \in (IF llm = "provider" THEN 1..MaxConcurrent
                           ELSE {DefaultMaxConcurrent})
    /\ output_csv \in BOOLEAN
    /\ include_reasoning \in (IF output_csv THEN BOOLEAN ELSE {TRUE})
    /\ NotCalled

BatchNext ==
    \/ evaluate_batch
    \/ \E text \in ReplyTexts : SyncCall(text)
    \/ \E e \in Errors : SyncCallError(e)
    \/ EvaluateWithoutCall
    \/ \E k \in 1..NC, text \in ReplyTexts : AsyncDocReply(k, text)
    \/ \E k \in 1..NC, e \in Errors : AsyncDocError(k, e)
    \/ \E i \in 1..ND : TaskStart(i)
    \/ \E i \in 1..ND, k \in 1..NC, text \in ReplyTexts : TaskReply(i, k, text)
    \/ \E i \in 1..ND, k \in 1..NC, e \in Errors : TaskError(i, k, e)
    \/ BatchGathered
    \/ BatchRaised

SpecBatch == BatchInit /\ [][BatchNext]_vars

\* Batches of documents with their own ids, no progress bar and no CSV file,
\* in which the interpreter and the running event loop take the steps they
\* can take and every backend call eventually replies or raises.
LiveInit == BatchInit /\ documents.form = "dict" /\ ~show_progress /\ ~output_csv
\* The steps that wait for no backend.
InterpreterStep ==
    \/ evaluate_batch
    \/ EvaluateWithoutCall
    \/ \E i \in 1..ND : TaskStart(i)
    \/ BatchGathered
    \/ BatchRaised
\* A backend call is awaited by code that is running: the call of the
\* serial loop, a request of run_until_complete(evaluate_document_async), a
\* request of a task of the running batch loop.
BackendCallAwaited ==
    \/ dpc \in {"try_sync", "fallback", "plain"} /\ llm # "mock" /\ crit <= NC
    \/ dpc = "try_async" /\ loop_active /\ NC > 0
    \/ loop_active /\ \E i \in 1..ND : tstate[i] = "running"
SpecLive ==
    LiveInit /\ [][BatchNext]_vars /\ WF_vars(InterpreterStep) /\ []<>~BackendCallAwaited

\* The concurrent batch on an idle loop, for any asyncio.Semaphore(max_concurrent)
\* from 0 up, with a backend whose every request replies.
GateInit ==
    /\ NoRubricCall
    /\ criteria \in Rubrics
    /\ op = "evaluate_batch"
    /\ documents \in DocumentsArguments /\ documents.form = "dict"
    /\ Len(criteria) * Len(documents.items) <= MaxRequests
    /\ directory = NoDirectory /\ recursive = FALSE
    /\ llm = "provider" /\ loop_running = FALSE
    /\ show_progress \in BOOLEAN
    /\ max_concurrent \in 0..MaxConcurrent
    /\ output_csv = FALSE /\ include_reasoning = TRUE
    /\ NotCalled
\* The steps of the interpreter and of the event loop.
GateStep ==
    \/ evaluate_batch
    \/ \E i \in 1..ND : TaskStart(i)
    \/ BatchGathered
GateNext ==
    \/ GateStep
    \/ \E i \in 1..ND, k \in 1..NC, text \in ReplyTexts : TaskReply(i, k, text)
SpecGate ==
    GateInit /\ [][GateNext]_vars /\ WF_vars(GateStep) /\ []<>(InFlight = {})

\* The input handling of evaluate_directory and evaluate_batch: either call,
\* with the default show_progress and max_concurrent, without a backend or
\* with an llm_function.
DirectoryInit ==
    /\ NoRubricCall
    /\ criteria \in Rubrics
    /\ op \in {"evaluate_directory", "evaluate_batch"}
    /\ IF op = "evaluate_directory"
       THEN /\ documents = [form |-> "dict", items |-> <<>>]
            /\ directory \in Directories /\ recursive \in BOOLEAN
            /\ Len(criteria) * Len(Glob(directory, recursive)) <= MaxRequests
       ELSE /\ documents \in DocumentsArguments
            /\ directory = NoDirectory /\ recursive = FALSE
            /\ Len(criteria) * Len(documents.items) <= MaxRequests
    /\ llm \in {"mock", "function"}
    /\ loop_running = FALSE
    /\ show_progress = TRUE
    /\ max_concurrent = DefaultMaxConcurrent
    /\ output_csv \in BOOLEAN
    /\ include_reasoning = TRUE
    /\ NotCalled

DirectoryNext ==
    \/ evaluate_directory
    \/ evaluate_batch
    \/ \E text \in ReplyTexts : SyncCall(text)
    \/ \E e \in Errors : SyncCallError(e)
    \/ EvaluateWithoutCall

SpecDirectory == DirectoryInit /\ [][DirectoryNext]_vars

\* -------------------------------------------- the parser on its own
\* Response texts are built a line at a time: an optional label with an ASCII
\* or a fullwidth colon, then a value.  The values are an integer between
\* blanks, a decimal (no integer) and a text with a fullwidth colon in it
\* (no number).
Labels == {"S", "R", "C"}
Colons == {":", "FW"}
LabelParts == {<<>>} \cup {<<l, c>> : l \in Labels, c \in Colons}
LineValues ==
    {<<" ", "4", " ">>, <<".", "5">>, <<"x", "FW", "x">>}
\* A reasoning line whose text quotes the score label.
LabelInTextLines == {<<"R", ":", "S", ":", "4">>}
ParserLines == {lp \o v : lp \in LabelParts, v \in LineValues} \cup LabelInTextLines

NumLines(text) == IF text = <<>> THEN 0 ELSE Len(Split(text, "NL"))

ParseInit ==
    /\ NoRubricCall
    /\ criteria = <<>> /\ op = "parse_llm_response"
    /\ doc_items = <<>> /\ llm = "mock" /\ loop_running = FALSE
    /\ show_progress = FALSE /\ max_concurrent = DefaultMaxConcurrent
    /\ documents = [form |-> "document", items |-> doc_items]
    /\ directory = NoDirectory /\ recursive = FALSE
    /\ output_csv = FALSE /\ include_reasoning = TRUE /\ csv_out = NoCsv
    /\ bpc = "idle" /\ dpc = "idle" /\ cur = 1 /\ crit = 1
    /\ scores = <<>> /\ replies = <<>> /\ aresp = <<>>
    /\ loop_active = FALSE /\ call_saw_error = FALSE /\ swallowed = FALSE
    /\ requests = <<>> /\ results = <<>> /\ error = "none" /\ failures = FALSE
    /\ tstate = <<>> /\ tresp = <<>> /\ tresult = <<>>
    /\ completed = <<>> /\ semaphore = 0 /\ pending_exc = "none"
    /\ ParseIdle

\* The caller extends the response by one line and parses it.
ParseResponse(line) ==
    /\ NumLines(response) < MaxLines
    /\ response' = IF response = <<>> THEN line ELSE response \o <<"NL">> \o line
    /\ parsed' = parse_llm_response(response', "clarity")
    /\ UNCHANGED <<cfgVars, docVars, taskVars, bpc, requests, swallowed, results, csv_out,
                   error, failures>>

ParseNext == \E line \in ParserLines : ParseResponse(line)

SpecParse == ParseInit /\ [][ParseNext]_vars

\* ---------------------------------------- the aggregation on its own
\* Replies that give a score and a confidence, in and out of range.
ScoreTokens == {<<"-", "1">>, <<"4">>, <<"9">>}
ConfidenceTokens == {<<"-", ".", "5">>, <<"0">>, <<".", "5">>, <<"1", ".", "4">>}
AggReplies ==
    {<<"S", ":">> \o st \o <<"NL", "C", ":">> \o ct :
        st \in ScoreTokens, ct \in ConfidenceTokens}

AggInit ==
    /\ NoRubricCall
    /\ criteria = <<>> /\ op = "aggregate"
    /\ doc_items = <<[id |-> "doc_A", content |-> <<"document", 1>>]>>
    /\ llm = "function" /\ loop_running = FALSE
    /\ show_progress = FALSE /\ max_concurrent = DefaultMaxConcurrent
    /\ documents = [form |-> "document", items |-> doc_items]
    /\ directory = NoDirectory /\ recursive = FALSE
    /\ output_csv = FALSE /\ include_reasoning = TRUE /\ csv_out = NoCsv
    /\ bpc = "idle" /\ dpc = "idle" /\ cur = 1 /\ crit = 1
    /\ scores = <<>> /\ replies = <<>> /\ aresp = <<>>
    /\ loop_active = FALSE /\ call_saw_error = FALSE /\ swallowed = FALSE
    /\ requests = <<>> /\ results = <<>> /\ error = "none" /\ failures = FALSE
    /\ tstate = <<>> /\ tresp = <<>> /\ tresult = <<>>
    /\ completed = <<>> /\ semaphore = 0 /\ pending_exc = "none"
    /\ ParseIdle

\* One more reply is parsed and appended, and the result is built from the
\* scores so far (lines 210-224).
AggregateScores(text) ==
    /\ Len(scores) < MaxScores
    /\ scores' = Append(scores, CriterionScore(parse_llm_response(text, "clarity")))
    /\ replies' = Append(replies, Reply(1, Len(scores) + 1, text))
    /\ results' = <<EvaluationResult(1, scores', replies', <<>>, "custom_llm", "serial")>>
    /\ UNCHANGED <<cfgVars, csv_out, taskVars, parseVars, cur, dpc, crit, aresp,
                   loop_active, call_saw_error, bpc, requests, swallowed, error,
                   failures>>

AggNext == \E text \in AggReplies : AggregateScores(text)

SpecAgg == AggInit /\ [][AggNext]_vars

\* ------------------------------------------------- to_csv on its own
\* EvaluationResult objects as a caller can build them: with or without a
\* document_id and a model_used, any scores, any overall_score.
CsvScores ==
    {[criterion_name |-> "clarity", score |-> 4, reasoning |-> <<"x">>,
      confidence |-> Frac(5, 10)],
     [criterion_name |-> "coherence", score |-> 9, reasoning |-> <<>>,
      confidence |-> Frac(14, 10)]}
CsvOverallScores == {Frac(3, 1), Frac(25, 8), Frac(-1, 3)}
CsvResults ==
    {[document_id |-> id, scores |-> scs, overall_score |-> o, model_used |-> m,
      document |-> <<"document", 1>>, replies |-> <<>>, order |-> <<>>,
      path |-> "built"] :
        id \in {"None", "", "doc_A"}, m \in {"None", "mock"},
        scs \in SeqsUpTo(CsvScores, MaxScores), o \in CsvOverallScores}

CsvInit ==
    /\ NoRubricCall
    /\ criteria = <<>> /\ op = "to_csv"
    /\ doc_items = <<>> /\ llm = "mock" /\ loop_running = FALSE
    /\ show_progress = FALSE /\ max_concurrent = DefaultMaxConcurrent
    /\ documents = [form |-> "document", items |-> doc_items]
    /\ directory = NoDirectory /\ recursive = FALSE
    /\ output_csv = FALSE /\ include_reasoning = TRUE /\ csv_out = NoCsv
    /\ bpc = "idle" /\ dpc = "idle" /\ cur = 1 /\ crit = 1
    /\ scores = <<>> /\ replies = <<>> /\ aresp = <<>>
    /\ loop_active = FALSE /\ call_saw_error = FALSE /\ swallowed = FALSE
    /\ requests = <<>> /\ error = "none" /\ failures = FALSE
    /\ \E r \in CsvResults : results = <<r>>
    /\ tstate = <<>> /\ tresp = <<>> /\ tresult = <<>>
    /\ completed = <<>> /\ semaphore = 0 /\ pending_exc = "none"
    /\ ParseIdle

\* result.to_csv(include_reasoning=with_reasoning) called on the result.
ResultToCsv(with_reasoning) ==
    /\ include_reasoning' = with_reasoning
    /\ csv_out' = [written |-> TRUE, rows |-> to_csv(results[1], with_reasoning)]
    /\ UNCHANGED <<criteria, llm, loop_running, show_progress, max_concurrent, op,
                   directory, recursive, output_csv, rubricVars, documents, doc_items,
                   docVars, taskVars, parseVars, bpc, requests, swallowed, results,
                   error, failures>>

CsvNext == \E with_reasoning \in BOOLEAN : ResultToCsv(with_reasoning)

SpecCsv == CsvInit /\ [][CsvNext]_vars

\* ------------------------------------------------------------ criteria.py
\* Level(score, rule), Criterion(name, description, levels) and the Criteria
\* object holding a list of Criterion.
LevelValues == {[score |-> 1, rule |-> "poor"], [score |-> 10, rule |-> "excellent"]}
Descriptions == {"", "how clear the text is"}
CriterionObjects ==
    {[name |-> n, description |-> d, levels |-> ls] :
        n \in CriterionNames, d \in Descriptions,
        ls \in InjectiveSeqs(LevelValues, MaxLevels)}
Criteria(criteria_list) == [made |-> TRUE, criteria |-> criteria_list]

\* A Python dict: its keys in insertion order and the value of each key.
Dict(order, items) == [order |-> order, items |-> items]
Has(d, k) == k \in DOMAIN d.items
Get(d, k, default) == IF Has(d, k) THEN d.items[k] ELSE default

\* to_dict(): the dict literal of lines 87-102.
to_dict(self) ==
    Dict(<<"criteria">>,
         [criteria |->
            [i \in 1..Len(self.criteria) |->
                LET criterion == self.criteria[i]
                IN  Dict(<<"name", "description", "levels">>,
                         [name |-> criterion.name,
                          description |-> criterion.description,
                          levels |->
                            [j \in 1..Len(criterion.levels) |->
                                Dict(<<"score", "rule">>,
                                     [score |-> criterion.levels[j].score,
                                      rule |-> criterion.levels[j].rule])]])]])

\* JSON text: an object is its members in the order written, an array a
\* sequence, a number its digits, a string its characters.
DigitChars == <<"0", "1", "2", "3", "4", "5", "6", "7", "8", "9">>
RECURSIVE IntDigits(_)
IntDigits(n) ==
    IF n < 10 THEN <<DigitChars[n + 1]>>
    ELSE IntDigits(n \div 10) \o <<DigitChars[(n % 10) + 1]>>
JsonNumber(n) == [number |-> IF n < 0 THEN <<"-">> \o IntDigits(-n) ELSE IntDigits(n)]
JsonString(s) == [string |-> s]
DigitValue(c) == CHOOSE v \in 0..9 : DigitChars[v + 1] = c
RECURSIVE ParseDigits(_)
ParseDigits(ds) ==
    IF ds = <<>> THEN 0
    ELSE 10 * ParseDigits(SubSeq(ds, 1, Len(ds) - 1)) + DigitValue(ds[Len(ds)])
ParseNumberFirstDigit(t) == DigitValue(Head(t.number))
ParseNumber(t) ==
    IF Head(t.number) = "-" THEN 0 - ParseDigits(Tail(t.number))
    ELSE ParseDigits(t.number)

\* json.dumps(data, ensure_ascii=False, indent=2) and json.loads(text) on
\* payloads of the rubric shape: "criteria" and "levels" hold arrays of
\* objects, "score" a number, the other keys strings.
RECURSIVE dumps(_)
dumps(data) ==
    [order |-> data.order,
     items |-> [k \in DOMAIN data.items |->
                  CASE k \in {"criteria", "levels"} ->
                         [j \in 1..Len(data.items[k]) |-> dumps(data.items[k][j])]
                    [] k = "score" -> JsonNumber(data.items[k])
                    [] OTHER -> JsonString(data.items[k])]]
RECURSIVE loads(_)
loads(text) ==
    [order |-> text.order,
     items |-> [k \in DOMAIN text.items |->
                  CASE k \in {"criteria", "levels"} ->
                         [j \in 1..Len(text.items[k]) |-> loads(text.items[k][j])]
                    [] k = "score" -> ParseNumber(text.items[k])
                    [] OTHER -> text.items[k].string]]

\* to_json(): json.dumps of the same dict literal (lines 42-58).
to_json(self) == dumps(to_dict(self))

\* from_dict(data), lines 107-121: criterion_data["name"], level_data["score"]
\* and level_data["rule"] raise KeyError when the key is absent;
\* "criteria", "levels" and "description" are read with .get and a default.
FromDictRaisesOnMissingLevels(data) ==
    \E i \in 1..Len(Get(data, "criteria", <<>>)) :
        LET criterion_data == Get(data, "criteria", <<>>)[i]
        IN  \/ ~Has(criterion_data, "name")
            \/ ~Has(criterion_data, "levels")
            \/ \E j \in 1..Len(Get(criterion_data, "levels", <<>>)) :
                  LET level_data == Get(criterion_data, "levels", <<>>)[j]
                  IN  ~Has(level_data, "score") \/ ~Has(level_data, "rule")
FromDictRaises(data) ==
    \E i \in 1..Len(Get(data, "criteria", <<>>)) :
        LET criterion_data == Get(data, "criteria", <<>>)[i]
        IN  \/ ~Has(criterion_data, "name")
            \/ \E j \in 1..Len(Get(criterion_data, "levels", <<>>)) :
                  LET level_data == Get(criterion_data, "levels", <<>>)[j]
                  IN  ~Has(level_data, "score") \/ ~Has(level_data, "rule")
from_dict(data) ==
    Criteria([i \in 1..Len(Get(data, "criteria", <<>>)) |->
                LET criterion_data == Get(data, "criteria", <<>>)[i]
                    levels == [j \in 1..Len(Get(criterion_data, "levels", <<>>)) |->
                                 LET level_data == Get(criterion_data, "levels", <<>>)[j]
                                 IN  [score |-> level_data.items["score"],
                                      rule |-> level_data.items["rule"]]]
                IN  [name |-> criterion_data.items["name"],
                     description |-> Get(criterion_data, "description", ""),
                     levels |-> levels]])

\* from_json(json_str), lines 62-77: the same construction on json.loads.
FromJsonRaises(json_str) == FromDictRaises(loads(json_str))
from_json(json_str) == from_dict(loads(json_str))

\* Payloads a caller can hand in: every key of an entry may be absent.
Restrict(order, items, keys) ==
    Dict(SelectSeq(order, LAMBDA k : k \in keys), [k \in keys |-> items[k]])
LevelPayloads ==
    {Restrict(<<"score", "rule">>, [score |-> 1, rule |-> "poor"], keys) :
        keys \in SUBSET {"score", "rule"}}
FullLevel == Restrict(<<"score", "rule">>, [score |-> 1, rule |-> "poor"], {"score", "rule"})
LevelsPayloads ==
    {<<>>, <<FullLevel>>} \cup {<<FullLevel, l>> : l \in LevelPayloads}
CriterionPayloads ==
    {Restrict(<<"name", "description", "levels">>,
              [name |-> "clarity", description |-> "how clear the text is",
               levels |-> ls], keys) :
        ls \in LevelsPayloads, keys \in SUBSET {"name", "description", "levels"}}
DictPayloads ==
    {Dict(<<>>, <<>>)}
        \cup {Dict(<<"criteria">>, [criteria |-> cs]) :
                cs \in SeqsUpTo(CriterionPayloads, MaxCriteria)}

RubricInit ==
    /\ criteria = <<>> /\ op = "criteria"
    /\ doc_items = <<>> /\ llm = "mock" /\ loop_running = FALSE
    /\ show_progress = FALSE /\ max_concurrent = DefaultMaxConcurrent
    /\ documents = [form |-> "document", items |-> doc_items]
    /\ directory = NoDirectory /\ recursive = FALSE
    /\ output_csv = FALSE /\ include_reasoning = TRUE /\ csv_out = NoCsv
    /\ bpc = "idle" /\ dpc = "idle" /\ cur = 1 /\ crit = 1
    /\ scores = <<>> /\ replies = <<>> /\ aresp = <<>>
    /\ loop_active = FALSE /\ call_saw_error = FALSE /\ swallowed = FALSE
    /\ requests = <<>> /\ error = "none" /\ failures = FALSE
    /\ results = <<>>
    /\ tstate = <<>> /\ tresp = <<>> /\ tresult = <<>>
    /\ completed = <<>> /\ semaphore = 0 /\ pending_exc = "none"
    /\ ParseIdle
    /\ loaded = NoCriteria /\ exported = NotExported /\ prompts = <<>>
    /\ \/ /\ rubric \in {Criteria(cs) : cs \in SeqsUpTo(CriterionObjects, MaxCriteria)}
          /\ payload = NoPayload
       \/ /\ rubric = NoCriteria
          /\ \E data \in DictPayloads :
                \/ payload = [kind |-> "dict", data |-> data]
                \/ payload = [kind |-> "json", data |-> dumps(data)]

RubricUnchanged ==
    UNCHANGED <<criteria, llm, loop_running, show_progress, max_concurrent, op,
                directory, recursive, output_csv, include_reasoning, documents,
                doc_items, docVars, taskVars, parseVars, bpc, requests, swallowed,
                results, csv_out, failures, prompts>>

\* rubric.to_json() / rubric.to_dict(): the payload a later load reads.
CallToJson ==
    /\ rubric.made /\ payload = NoPayload
    /\ payload' = [kind |-> "json", data |-> to_json(rubric)]
    /\ UNCHANGED <<rubric, loaded, exported, error>>
    /\ RubricUnchanged
CallToDict ==
    /\ rubric.made /\ payload = NoPayload
    /\ payload' = [kind |-> "dict", data |-> to_dict(rubric)]
    /\ UNCHANGED <<rubric, loaded, exported, error>>
    /\ RubricUnchanged

\* Criteria.from_json(payload) / Criteria.from_dict(payload).
CallFromJson ==
    /\ payload.kind = "json" /\ ~loaded.made /\ error = "none"
    /\ IF FromJsonRaises(payload.data)
       THEN error' = "KeyError" /\ loaded' = loaded
       ELSE error' = error /\ loaded' = from_json(payload.data)
    /\ UNCHANGED <<rubric, payload, exported>>
    /\ RubricUnchanged
CallFromDict ==
    /\ payload.kind = "dict" /\ ~loaded.made /\ error = "none"
    /\ IF FromDictRaises(payload.data)
       THEN error' = "KeyError" /\ loaded' = loaded
       ELSE error' = error /\ loaded' = from_dict(payload.data)
    /\ UNCHANGED <<rubric, payload, exported>>
    /\ RubricUnchanged

\* loaded.to_json(): the second export.
ExportLoaded ==
    /\ loaded.made /\ ~exported.made
    /\ exported' = [made |-> TRUE, text |-> to_json(loaded)]
    /\ UNCHANGED <<rubric, payload, loaded, error>>
    /\ RubricUnchanged

RubricNext ==
    \/ CallToJson
    \/ CallToDict
    \/ CallFromJson
    \/ CallFromDict
    \/ ExportLoaded

SpecRubric == RubricInit /\ [][RubricNext]_vars

\* criteria.append(criterion) on a Rubric built from a payload.
CallAppend(criterion) ==
    /\ loaded.made /\ Len(loaded.criteria) < MaxCriteria
    /\ loaded' = Criteria(Append(loaded.criteria, criterion))
    /\ UNCHANGED <<rubric, payload, exported, error>>
    /\ RubricUnchanged

AppendInit == RubricInit /\ ~rubric.made
AppendNext ==
    \/ CallFromJson
    \/ CallFromDict
    \/ \E criterion \in CriterionObjects : CallAppend(criterion)

SpecAppend == AppendInit /\ [][AppendNext]_vars

\* -------------------------------------------------------- generate_prompt
\* sorted(criterion.levels, key=lambda x: x.score, reverse=True): a new list,
\* highest score first, levels of equal score in their stored order.
InsertLevelBeforeTies(sorted, level) ==
    LET k == Cardinality({i \in 1..Len(sorted) : sorted[i].score > level.score})
    IN  SubSeq(sorted, 1, k) \o <<level>> \o SubSeq(sorted, k + 1, Len(sorted))
InsertLevel(sorted, level) ==
    LET k == Cardinality({i \in 1..Len(sorted) : sorted[i].score >= level.score})
    IN  SubSeq(sorted, 1, k) \o <<level>> \o SubSeq(sorted, k + 1, Len(sorted))
RECURSIVE SortedByScore(_)
SortedByScore(levels) ==
    IF levels = <<>> THEN <<>>
    ELSE InsertLevel(SortedByScore(Front(levels)), Last(levels))

\* The prompt text, line by line: what kind of line it is, the score it
\* quotes (0 when it quotes none) and its variable text.
PromptLine(kind, score, text) == [kind |-> kind, score |-> score, text |-> text]
PromptLines(document, criterion) ==
    <<PromptLine("instruction", 0, ""),
      PromptLine("blank", 0, ""),
      PromptLine("criterion_name", 0, criterion.name),
      PromptLine("description", 0, criterion.description),
      PromptLine("blank", 0, ""),
      PromptLine("rules_heading", 0, "")>>
    \o [j \in 1..Len(criterion.levels) |->
          PromptLine("bullet", SortedByScore(criterion.levels)[j].score,
                     SortedByScore(criterion.levels)[j].rule)]
    \o <<PromptLine("blank", 0, ""),
         PromptLine("document_heading", 0, ""),
         PromptLine("rule", 0, "---"),
         PromptLine("document", 0, document),
         PromptLine("rule", 0, "---"),
         PromptLine("blank", 0, ""),
         PromptLine("format_heading", 0, ""),
         PromptLine("answer_score", 0, ""),
         PromptLine("answer_reasoning", 0, ""),
         PromptLine("answer_confidence", 0, ""),
         PromptLine("blank", 0, ""),
         PromptLine("answer_heading", 0, "")>>

\* What generate_prompt leaves in criterion.levels: sorted() copies, so the
\* stored list is the one it was.
LevelsSortedInPlace(criterion) == SortedByScore(criterion.levels)
LevelsAfterPrompt(criterion) == criterion.levels

PromptLevelValues ==
    LevelValues \cup {[score |-> 10, rule |-> "outstanding"]}
PromptNames == <<"clarity", "coherence", "clarity", "coherence">>
PromptRubrics ==
    {Criteria([i \in 1..Len(ls) |->
                 [name |-> PromptNames[i],
                  description |-> IF i = 1 THEN "" ELSE "how clear the text is",
                  levels |-> ls[i]]]) :
        ls \in SeqsUpTo(InjectiveSeqs(PromptLevelValues, MaxLevels), MaxCriteria)}
PromptDocument == "first text"

PromptInit ==
    /\ criteria = <<>> /\ op = "generate_prompt"
    /\ doc_items = <<>> /\ llm = "function" /\ loop_running = FALSE
    /\ show_progress = FALSE /\ max_concurrent = DefaultMaxConcurrent
    /\ documents = [form |-> "document", items |-> doc_items]
    /\ directory = NoDirectory /\ recursive = FALSE
    /\ output_csv = FALSE /\ include_reasoning = TRUE /\ csv_out = NoCsv
    /\ bpc = "idle" /\ dpc = "idle" /\ cur = 1 /\ crit = 1
    /\ scores = <<>> /\ replies = <<>> /\ aresp = <<>>
    /\ loop_active = FALSE /\ call_saw_error = FALSE /\ swallowed = FALSE
    /\ requests = <<>> /\ error = "none" /\ failures = FALSE
    /\ results = <<>>
    /\ tstate = <<>> /\ tresp = <<>> /\ tresult = <<>>
    /\ completed = <<>> /\ semaphore = 0 /\ pending_exc = "none"
    /\ ParseIdle
    /\ payload = NoPayload /\ loaded = NoCriteria /\ exported = NotExported
    /\ prompts = <<>>
    /\ rubric \in PromptRubrics

PromptUnchanged ==
    UNCHANGED <<criteria, llm, loop_running, show_progress, max_concurrent, op,
                directory, recursive, output_csv, include_reasoning, documents,
                doc_items, docVars, taskVars, parseVars, bpc, requests, swallowed,
                results, csv_out, failures, payload, loaded, exported>>

\* prompt = self.generate_prompt(document, criterion) for the i-th criterion
\* of the Rubric, by any evaluation that shares it.
GeneratePrompt(i) ==
    /\ error = "none" /\ Len(prompts) < MaxPrompts
    /\ prompts' = Append(prompts,
                         [criterion |-> i,
                          lines |-> PromptLines(PromptDocument, rubric.criteria[i])])
    /\ rubric' = [rubric EXCEPT
                    !.criteria[i].levels = LevelsAfterPrompt(rubric.criteria[i])]
    /\ error' = error
    /\ PromptUnchanged

\* The backend call that follows a prompt raises: the evaluation ends there.
PromptCallRaises ==
    /\ error = "none" /\ prompts # <<>>
    /\ error' = "APIError"
    /\ UNCHANGED <<rubric, prompts>>
    /\ PromptUnchanged

PromptNext ==
    \/ \E i \in 1..Len(rubric.criteria) : GeneratePrompt(i)
    \/ PromptCallRaises

SpecPrompt == PromptInit /\ [][PromptNext]_vars

\* ================================================================ claims
\* Every EvaluationResult the program holds: the returned list and the
\* results of the finished document tasks.
AllResults ==
    {results[i] : i \in 1..Len(results)}
        \cup {tresult[i] : i \in {j \in DOMAIN tresult : tresult[j] # NoResult}}

\* C1: when evaluate_batch returns and no document evaluation failed, the
\* list has one result per input pair and its i-th element carries the i-th
\* id and was computed from the i-th content.
C1_BatchOrderPreserved ==
    (op = "evaluate_batch" /\ bpc = "returned" /\ ~failures /\ max_concurrent >= 1) =>
        /\ Len(results) = ND
        /\ \A i \in 1..ND :
              /\ results[i].document_id = doc_items[i].id
              /\ results[i].document = doc_items[i].content

\* C2: on the concurrent batch path the number of document evaluations that
\* have started and not yet ended never exceeds max_concurrent.
C2_InFlightBounded == Cardinality(InFlight) <= max_concurrent

C2_Witness ==
    /\ bpc = "async" /\ max_concurrent >= 1
    /\ Cardinality(InFlight) = max_concurrent
    /\ \E i \in 1..ND : tstate[i] = "queued"

\* C3: on the concurrent single-document path the k-th score carries the
\* name of the k-th criterion and is parsed from the reply to the request
\* made for the k-th criterion of that document, whatever the arrival order.
C3_ScoresInRubricOrder ==
    \A r \in AllResults :
        r.path = "concurrent" =>
            \A k \in 1..Len(r.scores) :
                /\ r.scores[k].criterion_name = criteria[k]
                /\ r.replies[k].prompt = [document |-> r.document, criterion |-> k]
                /\ r.scores[k] =
                     CriterionScore(parse_llm_response(r.replies[k].text, criteria[k]))

C3_Witness ==
    \E r \in AllResults :
        /\ r.path = "concurrent" /\ r.order = <<2, 1>>
        /\ r.replies[1].text # r.replies[2].text
        /\ criteria[1] # criteria[2]

\* C4: the backend receives at most one request per (document, criterion)
\* pair of a call.
C4_NoRetries ==
    \A d \in 1..ND : \A k \in 1..NC : requests[d][k] <= 1

\* C5: no evaluate_document call during which a backend call raised returns
\* an EvaluationResult.
C5_BackendErrorPropagates == ~swallowed

\* C6: every EvaluationResult has exactly one score per criterion of the
\* Rubric, the k-th one named after the k-th criterion.
C6_OneScorePerCriterion ==
    \A r \in AllResults :
        /\ Len(r.scores) = NC
        /\ \A k \in 1..NC : r.scores[k].criterion_name = criteria[k]

C6_Witness ==
    \E r \in AllResults :
        /\ r.path = "concurrent" /\ NC = MaxCriteria
        /\ \E k \in 1..NC : r.replies[k].text = ZeroConfidenceReply

\* The Aggregator formula, stated on the scores of a result: overall is
\* sum(score * confidence) / sum(confidence), or 0 when sum(confidence) is 0.
RECURSIVE WeightedSum(_, _)
WeightedSum(scs, k) ==
    IF k = 0 THEN FromInt(0)
    ELSE FAdd(WeightedSum(scs, k - 1), FMul(FromInt(scs[k].score), scs[k].confidence))
RECURSIVE ConfidenceSum(_, _)
ConfidenceSum(scs, k) ==
    IF k = 0 THEN FromInt(0) ELSE FAdd(ConfidenceSum(scs, k - 1), scs[k].confidence)
IsWeightedMean(overall, scs) ==
    FMul(overall, ConfidenceSum(scs, Len(scs))) = WeightedSum(scs, Len(scs))

\* C7: the overall_score of every EvaluationResult, on any path and for any
\* Rubric, is the Aggregator formula applied to the result's own scores.
C7_OverallFromScores ==
    \A r \in AllResults :
        IF ConfidenceSum(r.scores, Len(r.scores)).n = 0
        THEN r.overall_score = FromInt(0)
        ELSE IsWeightedMean(r.overall_score, r.scores)

\* C8 as claimed: on the live paths overall_score is the weighted mean
\* whenever the sum of the confidences is not 0, and 0 when it is 0.
C8_WeightedMeanUnlessZeroSum ==
    \A i \in 1..Len(results) :
        results[i].path # "mock" =>
            IF ConfidenceSum(results[i].scores, Len(results[i].scores)).n # 0
            THEN IsWeightedMean(results[i].overall_score, results[i].scores)
            ELSE results[i].overall_score = FromInt(0)

\* C8 as amended: on the live paths overall_score is the weighted mean
\* whenever the sum of the confidences is greater than 0, and 0 whenever
\* that sum is 0 or negative; the computation never divides by zero.
C8_WeightedMeanWhenPositiveSum ==
    \A i \in 1..Len(results) :
        results[i].path # "mock" =>
            /\ results[i].overall_score.d > 0
            /\ IF ConfidenceSum(results[i].scores, Len(results[i].scores)).n > 0
               THEN IsWeightedMean(results[i].overall_score, results[i].scores)
               ELSE results[i].overall_score = FromInt(0)

C8_Witness ==
    \E i \in 1..Len(results) :
        LET scs == results[i].scores
        IN  /\ Len(scs) = MaxScores
            /\ ConfidenceSum(scs, Len(scs)).n > 0
            /\ \E k \in 1..Len(scs) : scs[k].confidence.n < 0
            /\ \E k \in 1..Len(scs) : scs[k].score = 9
            /\ results[i].overall_score # FromInt(0)

\* The fields of a reply as a reader sees them: a line carries a field when
\* the field's label is directly followed by a colon of either kind, and the
\* field's token is the text after the last colon of the line, trimmed.
CarriesLabel(line, label) ==
    \E i \in 1..(Len(line) - 1) : line[i] = label /\ line[i + 1] \in Colons
AfterLastColon(line) ==
    LET at == {i \in 1..Len(line) : line[i] \in Colons}
        last == CHOOSE i \in at : \A j \in at : j <= i
    IN  SubSeq(line, last + 1, Len(line))
FieldToken(line) == Strip(AfterLastColon(line))

\* C9: parse_llm_response never raises and names the score after its
\* argument; score is 3 when no line carrying the score label has an integer
\* token, reasoning is empty when no line carries the reasoning label, and
\* confidence is 0.5 when no line carrying the confidence label has a
\* numeric token, each independently of the other two fields.
C9_ParserDefaults ==
    LET lines == ResponseLines(response)
        carrying(label) == {j \in 1..Len(lines) : CarriesLabel(lines[j], label)}
    IN  /\ ~parsed.raised
        /\ \A name \in CriterionNames :
              parse_llm_response(response, name).criterion_name = name
        /\ (\A j \in carrying("S") : ~IntParse(FieldToken(lines[j])).ok)
              => parsed.score = 3
        /\ carrying("R") = {} => parsed.reasoning = <<>>
        /\ (\A j \in carrying("C") : ~FloatParse(FieldToken(lines[j])).ok)
              => parsed.confidence = Frac(5, 10)

C9_Witness ==
    LET lines == ResponseLines(response)
    IN  /\ \E j \in 1..Len(lines) :
              CarriesLabel(lines[j], "S") /\ ~IntParse(FieldToken(lines[j])).ok
        /\ \A j \in 1..Len(lines) :
              CarriesLabel(lines[j], "S") => ~IntParse(FieldToken(lines[j])).ok
        /\ \A j \in 1..Len(lines) : ~CarriesLabel(lines[j], "R")
        /\ parsed.score = 3 /\ parsed.reasoning = <<>>
        /\ parsed.confidence # Frac(5, 10)
        /\ ~parsed.raised

\* The reply with every colon that directly follows a label replaced by c.
WithLabelColons(text, c) ==
    [i \in 1..Len(text) |->
        IF i > 1 /\ text[i] \in Colons /\ text[i - 1] \in Labels THEN c ELSE text[i]]

\* A well-formed ASCII-colon reply: a score line with an integer, a reasoning
\* line with a text and a confidence line with a number, in that order.
WellFormed(lines) ==
    /\ Len(lines) = 3
    /\ \A j \in 1..3 : Len(lines[j]) > 2 /\ lines[j][2] = ":"
    /\ lines[1][1] = "S" /\ lines[2][1] = "R" /\ lines[3][1] = "C"
    /\ \A j \in 1..3 : \A i \in 3..Len(lines[j]) : lines[j][i] \notin Labels
    /\ IntParse(Strip(SubSeq(lines[1], 3, Len(lines[1])))).ok
    /\ Strip(SubSeq(lines[2], 3, Len(lines[2]))) # <<>>
    /\ FloatParse(Strip(SubSeq(lines[3], 3, Len(lines[3])))).ok

\* C10, first half: the reply written with fullwidth colons after the labels
\* parses to the same CriterionScore as the one written with ASCII colons.
FullwidthEquivalent ==
    parse_llm_response(WithLabelColons(response, "FW"), "clarity")
        = parse_llm_response(WithLabelColons(response, ":"), "clarity")

\* C10, second half: a well-formed ASCII-colon reply parses to exactly its
\* integer score, its reasoning text and its confidence.
WellFormedExact ==
    LET lines == ResponseLines(response)
        value(j) == Strip(SubSeq(lines[j], 3, Len(lines[j])))
    IN  WellFormed(lines) =>
            /\ parsed.score = IntParse(value(1)).val
            /\ parsed.reasoning = value(2)
            /\ parsed.confidence = FloatParse(value(3)).val

\* C10: fullwidth colons after the labels are equivalent to ASCII colons,
\* and a well-formed ASCII-colon reply parses to exactly its three values.
C10_FullwidthEquivalentAndExact == FullwidthEquivalent /\ WellFormedExact

\* The integer after the score label and the number after the confidence
\* label of a reply that gives each on a line of its own.
TokenOf(text, label) ==
    LET lines == ResponseLines(text)
        j == CHOOSE i \in 1..Len(lines) : CarriesLabel(lines[i], label)
    IN  FieldToken(lines[j])
GivenScore(text) == IntParse(TokenOf(text, "S")).val
GivenConfidence(text) == FloatParse(TokenOf(text, "C")).val
RECURSIVE GivenWeightedSum(_, _)
GivenWeightedSum(reps, k) ==
    IF k = 0 THEN FromInt(0)
    ELSE FAdd(GivenWeightedSum(reps, k - 1),
              FMul(FromInt(GivenScore(reps[k].text)), GivenConfidence(reps[k].text)))
RECURSIVE GivenConfidenceSum(_, _)
GivenConfidenceSum(reps, k) ==
    IF k = 0 THEN FromInt(0)
    ELSE FAdd(GivenConfidenceSum(reps, k - 1), GivenConfidence(reps[k].text))

\* C11: the integer score and the numeric confidence a reply gives, in or
\* out of range, are the score and confidence of its CriterionScore, and the
\* overall score is aggregated from exactly those values.
C11_NoBoundsValidation ==
    \A i \in 1..Len(results) :
        LET r == results[i]
            n == Len(r.replies)
        IN  /\ Len(r.scores) = n
            /\ \A k \in 1..n :
                  /\ r.scores[k].score = GivenScore(r.replies[k].text)
                  /\ r.scores[k].confidence = GivenConfidence(r.replies[k].text)
            /\ GivenConfidenceSum(r.replies, n).n > 0 =>
                  FMul(r.overall_score, GivenConfidenceSum(r.replies, n))
                      = GivenWeightedSum(r.replies, n)

C11_Witness ==
    \E i \in 1..Len(results) :
        LET r == results[i]
        IN  /\ \E k \in 1..Len(r.scores) :
                  r.scores[k].score = 9 /\ r.scores[k].confidence = Frac(14, 10)
            /\ \E k \in 1..Len(r.scores) :
                  r.scores[k].score = -1 /\ r.scores[k].confidence.n < 0
            /\ r.overall_score.n > 5 * r.overall_score.d

InputAccepted == bpc # "start" /\ error # "ValueError"
PairsOf(items, pair) == {i \in 1..Len(items) : items[i] = pair}
ResultPair(r) == [id |-> r.document_id, content |-> r.document]

\* C13: evaluate_batch evaluates the pairs ("doc_0", d0), ("doc_1", d1), ...
\* for a list of contents, the items of a dict in iteration order and a list
\* of pairs as given; every result carries the id its content was paired
\* with, and a batch that returns holds each pair as often as the input.
C13_BatchInputNormalized ==
    InputAccepted =>
        /\ Len(doc_items) = Len(documents.items)
        /\ \A i \in 1..Len(doc_items) :
              IF documents.form = "list"
              THEN /\ doc_items[i].id = DocNumberIds[i]
                   /\ doc_items[i].content = documents.items[i]
              ELSE doc_items[i] = documents.items[i]
        /\ \A r \in AllResults :
              /\ PairsOf(doc_items, ResultPair(r)) # {}
              /\ \A k \in 1..Len(r.replies) : r.replies[k].prompt.document = r.document
        /\ bpc = "returned" =>
              \A i \in 1..Len(doc_items) :
                  Cardinality(PairsOf([j \in 1..Len(results) |-> ResultPair(results[j])],
                                      doc_items[i]))
                      = Cardinality(PairsOf(doc_items, doc_items[i]))

C13_Witness ==
    /\ documents.form = "list" /\ Len(documents.items) = MaxDocs
    /\ bpc = "returned" /\ llm = "provider" /\ NC > 0
    /\ Len(results) = MaxDocs
    /\ results[2].document_id = "doc_1" /\ results[2].document = documents.items[2]

\* C14: a concurrent batch returns, with a progress bar as without one, the
\* results of its document tasks in task order (what it returns without a
\* progress bar), whatever the order in which the tasks completed.
C14_ProgressObservational ==
    (bpc = "returned" /\ ND > 0 /\ \A i \in 1..ND : tresult[i] # NoResult) =>
        results = [i \in 1..ND |-> tresult[i]]

\* The files of the directory that match the pattern at the depth asked for
\* and can be read.
InScope(f) == FileMatches(f) /\ (recursive \/ FileDepth(f) = 1)
EvaluableFiles ==
    {i \in 1..Len(directory.files) :
        InScope(directory.files[i]) /\ directory.files[i].readable}

RejectedInput ==
    IF op = "evaluate_directory"
    THEN \/ ~directory.exists
         \/ \A i \in 1..Len(directory.files) :
               ~(InScope(directory.files[i]) /\ directory.files[i].readable)
    ELSE documents.form \in {"list", "tuples"} /\ Len(documents.items) = 0

\* C16: a call on a rejected input raises ValueError, and it does so before
\* any document is evaluated, any backend request is made, any CSV is
\* written or any result exists.
C16_InputErrorsFailWholeCall ==
    (RejectedInput /\ bpc # "start") =>
        /\ bpc = "raised" /\ error = "ValueError"
        /\ results = <<>> /\ AllResults = {}
        /\ doc_items = <<>> /\ dpc = "idle"
        /\ \A d \in DOMAIN requests : \A k \in DOMAIN requests[d] : requests[d][k] = 0
        /\ csv_out = NoCsv

C16_Witness ==
    /\ op = "evaluate_directory" /\ bpc = "raised" /\ error = "ValueError"
    /\ output_csv /\ llm = "function" /\ NC > 0
    /\ directory.exists
    /\ \E i \in 1..Len(directory.files) : InScope(directory.files[i])
    /\ \E i \in 1..Len(directory.files) : directory.files[i].readable

\* The field of a row under the column called name.
Field(header, row, name) == row[CHOOSE i \in 1..Len(header) : header[i] = name]
\* h hundredths is a value of x to two decimals.
TwoDecimalsOf(h, x) == 2 * Abs(100 * x.n - h * x.d) <= x.d

\* C17: to_csv gives a header and one row per score, in the order of the
\* scores; the reasoning column is there exactly when include_reasoning is
\* true; each row carries its score's name, score and confidence (and
\* reasoning), the result's overall_score to two decimals, and the
\* document_id and model_used of the result, empty text when absent.
C17_CsvShape ==
    csv_out.written =>
        LET r == results[1]
            header == csv_out.rows[1]
        IN  /\ Len(csv_out.rows) = Len(r.scores) + 1
            /\ Len(header) = IF include_reasoning THEN 8 ELSE 7
            /\ (\E i \in 1..Len(header) : header[i] = "reasoning") <=> include_reasoning
            /\ \A k \in 1..Len(r.scores) :
                  LET row == csv_out.rows[k + 1]
                  IN  /\ Len(row) = Len(header)
                      /\ Field(header, row, "criterion_name") = r.scores[k].criterion_name
                      /\ Field(header, row, "score") = r.scores[k].score
                      /\ Field(header, row, "confidence") = r.scores[k].confidence
                      /\ include_reasoning =>
                            Field(header, row, "reasoning") = r.scores[k].reasoning
                      /\ TwoDecimalsOf(Field(header, row, "overall_score").hundredths,
                                       r.overall_score)
                      /\ Field(header, row, "overall_score")
                            = Field(header, csv_out.rows[2], "overall_score")
                      /\ Field(header, row, "document_id")
                            = IF r.document_id = "None" THEN "" ELSE r.document_id
                      /\ Field(header, row, "model_used")
                            = IF r.model_used = "None" THEN "" ELSE r.model_used

C17_Witness ==
    /\ csv_out.written /\ ~include_reasoning
    /\ Len(results[1].scores) = MaxScores
    /\ results[1].document_id = "None" /\ results[1].model_used = "None"
    /\ results[1].overall_score = Frac(25, 8)
    /\ Len(csv_out.rows) = MaxScores + 1

\* The evaluation of the i-th input pair: the result of its task on the
\* concurrent path, the i-th evaluation made on the serial path.
EvaluationOf(i) == IF tresult[i] # NoResult THEN tresult[i] ELSE results[i]
RECURSIVE RowsInInputOrder(_)
RowsInInputOrder(n) ==
    IF n = 0 THEN <<>>
    ELSE RowsInInputOrder(n - 1) \o CsvRows(EvaluationOf(n), include_reasoning)
RECURSIVE SumOfScores(_)
SumOfScores(rs) == IF rs = <<>> THEN 0 ELSE Len(Head(rs).scores) + SumOfScores(Tail(rs))

\* C18: the CSV file evaluate_batch writes starts with the header, written
\* once, followed by the rows of the first input document in the order of its
\* scores, then those of the second, and so on; it has as many data rows as
\* the results have scores.
C18_BatchCsvInInputOrder ==
    (op = "evaluate_batch" /\ csv_out.written) =>
        /\ Len(csv_out.rows) = 1 + SumOfScores(results)
        /\ csv_out.rows[1] = CsvHeaders(include_reasoning)
        /\ \A k \in 2..Len(csv_out.rows) : csv_out.rows[k] # CsvHeaders(include_reasoning)
        /\ SubSeq(csv_out.rows, 2, Len(csv_out.rows)) = RowsInInputOrder(ND)

\* C19: a Rubric exported with to_json and read back with from_json has
\* the same criteria in the same order, each with the same name, description
\* and levels (score and rule) in the same order, and exporting it again
\* gives text identical to the first export.
C19_JsonRoundTrip ==
    (rubric.made /\ payload.kind = "json") =>
        /\ error = "none"
        /\ loaded.made =>
              /\ Len(loaded.criteria) = Len(rubric.criteria)
              /\ \A i \in 1..Len(rubric.criteria) :
                    LET a == rubric.criteria[i]
                        b == loaded.criteria[i]
                    IN  /\ b.name = a.name
                        /\ b.description = a.description
                        /\ Len(b.levels) = Len(a.levels)
                        /\ \A j \in 1..Len(a.levels) :
                              /\ b.levels[j].score = a.levels[j].score
                              /\ b.levels[j].rule = a.levels[j].rule
        /\ exported.made => exported.text = payload.data

C19_Witness ==
    /\ rubric.made /\ payload.kind = "json" /\ exported.made
    /\ Len(rubric.criteria) = MaxCriteria
    /\ rubric.criteria[1].name = rubric.criteria[2].name
    /\ rubric.criteria[1].levels = <<>> /\ rubric.criteria[1].description = ""
    /\ Len(rubric.criteria[2].levels) = 2
    /\ rubric.criteria[2].levels[1].score = 10

\* The entries of the "criteria" list of the payload, and what makes an
\* entry unusable: no name, or a level without score or without rule.
PayloadEntries == Get(payload.data, "criteria", <<>>)
EntryLevels(e) == Get(e, "levels", <<>>)
EntryUnusable(e) ==
    \/ ~Has(e, "name")
    \/ \E j \in 1..Len(EntryLevels(e)) :
          ~Has(EntryLevels(e)[j], "score") \/ ~Has(EntryLevels(e)[j], "rule")
ConstructionEnded == ~rubric.made /\ (loaded.made \/ error # "none")

Bullets(lines) == SelectSeq(lines, LAMBDA l : l.kind = "bullet")
LinesOfKind(lines, kind) == {k \in 1..Len(lines) : lines[k].kind = kind}
LevelOrders(n) == {f \in [1..n -> 1..n] : \A a, b \in 1..n : f[a] = f[b] => a = b}

\* C21: a prompt has one bullet per level of its criterion, highest score
\* first and levels of equal score in their stored order; the prompts of the
\* same document and criterion are the same text; the score, reasoning and
\* confidence answer lines come once each, in that order, after the document.
C21_PromptLevelsSorted ==
    \A p \in 1..Len(prompts) :
        LET levels == rubric.criteria[prompts[p].criterion].levels
            lines == prompts[p].lines
            bullets == Bullets(lines)
        IN  /\ Len(bullets) = Len(levels)
            /\ \E f \in LevelOrders(Len(levels)) :
                  /\ \A k \in 1..Len(levels) :
                        /\ bullets[k].score = levels[f[k]].score
                        /\ bullets[k].text = levels[f[k]].rule
                  /\ \A k, l \in 1..Len(levels) :
                        k < l => \/ levels[f[k]].score > levels[f[l]].score
                                 \/ /\ levels[f[k]].score = levels[f[l]].score
                                    /\ f[k] < f[l]
            /\ \A q \in 1..Len(prompts) :
                  prompts[q].criterion = prompts[p].criterion => prompts[q].lines = lines
            /\ \E d \in LinesOfKind(lines, "document"),
                  a \in LinesOfKind(lines, "answer_score"),
                  b \in LinesOfKind(lines, "answer_reasoning"),
                  c \in LinesOfKind(lines, "answer_confidence") :
                  /\ d < a /\ a < b /\ b < c
                  /\ lines[d].text = PromptDocument
                  /\ LinesOfKind(lines, "answer_score") = {a}
                  /\ LinesOfKind(lines, "answer_reasoning") = {b}
                  /\ LinesOfKind(lines, "answer_confidence") = {c}

C21_Witness ==
    /\ Len(prompts) = 2 /\ prompts[1].criterion = prompts[2].criterion
    /\ LET levels == rubric.criteria[prompts[1].criterion].levels
           bullets == Bullets(prompts[1].lines)
       IN  /\ Len(levels) = 3
           /\ levels[1].score < levels[2].score
           /\ levels[2].score = levels[3].score
           /\ bullets[1].text = levels[2].rule /\ bullets[2].text = levels[3].rule
           /\ \E k \in 1..Len(levels) - 1 :
                 /\ bullets[k].score = bullets[k + 1].score
                 /\ bullets[k].text # bullets[k + 1].text

\* C22: no step of an evaluation changes the Rubric: the criteria, their
\* names, descriptions and the stored order of their levels stay what they
\* were, when prompts are generated for several criteria in any order and
\* when the call that follows a prompt fails.
C22_RubricUnchanged == [][rubric' = rubric /\ criteria' = criteria]_vars

C22_Witness ==
    /\ Len(prompts) = 2 /\ prompts[1].criterion # prompts[2].criterion
    /\ error = "APIError"
    /\ \A p \in 1..2 :
          LET levels == rubric.criteria[prompts[p].criterion].levels
          IN  Len(levels) >= 2 /\ levels # SortedByScore(levels)

\* C23: on the concurrent batch path the free slots of the admission gate
\* are max_concurrent less the document evaluations in flight: an evaluation
\* in flight holds one slot, one that ended, with a result or with an error,
\* holds none.
C23_SlotsReturned ==
    (op = "evaluate_batch" /\ llm = "provider" /\ ~loop_running /\ bpc # "start") =>
        /\ semaphore = max_concurrent - Cardinality(InFlight)
        /\ semaphore >= 0

C23_Witness ==
    /\ bpc = "async" /\ max_concurrent = 1 /\ ND = 2
    /\ tstate[1] = "failed" /\ tstate[2] = "running"
    /\ semaphore = 0

\* The evaluation of the i-th submitted document has ended, with a result
\* or with its own failure: its task ended, or the serial loop has passed
\* it, or the serial loop raised on it, or the batch returned.
DocumentEnded(i) ==
    \/ tstate[i] \in {"done", "failed"}
    \/ bpc = "returned"
    \/ i < cur /\ bpc \in {"sync", "sync_try", "sync_fallback", "raised"}
    \/ i = cur /\ bpc = "raised" /\ call_saw_error

\* C24: once evaluate_batch has begun evaluating, the evaluation of every
\* submitted document eventually ends, with a result or with its own
\* failure, also when another document of the batch fails.
C24_EveryDocumentEnds ==
    \A i \in 1..MaxDocs :
        (op = "evaluate_batch" /\ bpc # "start" /\ i <= ND /\ max_concurrent >= 1)
            ~> (i <= ND /\ DocumentEnded(i))

\* The last line of the reply that carries a label, and the text after the
\* first colon of a line.
LinesCarrying(lines, label) == {j \in 1..Len(lines) : CarriesLabel(lines[j], label)}
LastCarrying(lines, label) ==
    CHOOSE j \in LinesCarrying(lines, label) : \A h \in LinesCarrying(lines, label) : h <= j
AfterFirstColon(line) ==
    LET at == {i \in 1..Len(line) : line[i] \in Colons}
        first == CHOOSE i \in at : \A j \in at : i <= j
    IN  SubSeq(line, first + 1, Len(line))

\* C25: each field comes from the last line that carries its label, whatever
\* other labels that line or the other lines carry: the score is the integer
\* of that line, the confidence the number of that line, the reasoning the
\* text of that line (compared here up to the kind of its colons).
C25_LastOccurrenceWins ==
    LET lines == ResponseLines(response)
    IN  /\ LinesCarrying(lines, "S") # {} =>
              LET r == IntParse(FieldToken(lines[LastCarrying(lines, "S")]))
              IN  r.ok => parsed.score = r.val
        /\ LinesCarrying(lines, "C") # {} =>
              LET r == FloatParse(FieldToken(lines[LastCarrying(lines, "C")]))
              IN  r.ok => parsed.confidence = r.val
        /\ LinesCarrying(lines, "R") # {} =>
              NormalizeColons(parsed.reasoning)
                  = NormalizeColons(Strip(AfterFirstColon(lines[LastCarrying(lines, "R")])))

\* C26: when the last line carrying the reasoning label is a reasoning line
\* (it does not carry the score label), the parsed reasoning is the text after
\* the first colon of that line, trimmed, with every colon of the text as it
\* was written.
C26_ReasoningVerbatim ==
    LET lines == ResponseLines(response)
    IN  (/\ LinesCarrying(lines, "R") # {}
         /\ ~CarriesLabel(lines[LastCarrying(lines, "R")], "S"))
            => parsed.reasoning = Strip(AfterFirstColon(lines[LastCarrying(lines, "R")]))

\* C27: the criteria of a Rubric built from a payload and extended with
\* append have pairwise distinct names.
C27_NamesDistinct ==
    loaded.made =>
        \A i, j \in 1..Len(loaded.criteria) :
            loaded.criteria[i].name = loaded.criteria[j].name => i = j

\* Lines 195-224 of _evaluate_sync replayed on the reply texts of the first
\* k criteria: model_used is None before the loop and set in every iteration.
RECURSIVE SyncLoop(_, _)
SyncLoop(texts, k) ==
    IF k = 0 THEN [scores |-> <<>>, model_used |-> "None"]
    ELSE LET before == SyncLoop(texts, k - 1)
         IN  [scores |-> Append(before.scores,
                           CriterionScore(parse_llm_response(texts[k], criteria[k]))),
              model_used |-> SyncModel]
SyncResultFrom(document_id, texts) ==
    LET after == SyncLoop(texts, Len(texts))
    IN  [document_id |-> document_id, scores |-> after.scores,
         overall_score |-> OverallScore(after.scores),
         model_used |-> after.model_used]
ResultFields(r) ==
    [document_id |-> r.document_id, scores |-> r.scores,
     overall_score |-> r.overall_score, model_used |-> r.model_used]

\* C28: a result of the concurrent path equals, timestamp apart, the result
\* the serial provider path builds for the same Rubric, document id and
\* reply per criterion, a Rubric without criteria included.
C28_SerialEqualsConcurrent ==
    llm = "provider" =>
        \A j \in 1..Len(results) :
            results[j].path = "concurrent" =>
                ResultFields(results[j]) =
                    SyncResultFrom(results[j].document_id,
                        [k \in 1..Len(results[j].replies) |-> results[j].replies[k].text])

\* C29 (as stated): on the concurrent batch path with replying requests,
\* for max_concurrent >= 1 every queued document acquires a slot and the
\* batch returns all results; with max_concurrent = 0 no evaluation ever
\* starts and the batch never returns.
C29_GateAsStated ==
    /\ \A i \in 1..MaxDocs :
           (bpc = "async" /\ max_concurrent >= 1 /\ i <= ND /\ tstate[i] = "queued")
               ~> (i <= ND /\ tstate[i] # "queued")
    /\ (bpc = "async" /\ max_concurrent >= 1)
           ~> (bpc = "returned" /\ Len(results) = ND)
    /\ []((bpc # "start" /\ max_concurrent = 0) =>
              (bpc = "async" /\ \A i \in 1..ND : tstate[i] = "queued"))

\* C29 (amended): the same, the batch that never returns being one of at
\* least one document; a batch of no documents returns at once whatever
\* max_concurrent is.
C29_GateNeverStarves ==
    /\ \A i \in 1..MaxDocs :
           (bpc = "async" /\ max_concurrent >= 1 /\ i <= ND /\ tstate[i] = "queued")
               ~> (i <= ND /\ tstate[i] # "queued")
    /\ (bpc = "async" /\ max_concurrent >= 1)
           ~> (bpc = "returned" /\ Len(results) = ND)
    /\ []((bpc # "start" /\ max_concurrent = 0 /\ ND > 0) =>
              (bpc = "async" /\ \A i \in 1..ND : tstate[i] = "queued"))
    /\ (bpc = "async" /\ ND = 0) ~> (bpc = "returned" /\ results = <<>>)
C29_Witness ==
    /\ bpc = "returned" /\ llm = "provider"
    /\ max_concurrent >= 1 /\ max_concurrent < ND /\ NC > 0
    /\ Len(results) = ND

\* Some document evaluation of the running batch has raised: the batch is
\* being run again by the except clause, or has raised to its caller.
SomeEvaluationRaised == bpc \in {"sync_fallback", "raised"}

\* C30: evaluate_batch writes the CSV file only once every document has been
\* evaluated successfully: never once a document evaluation has raised, and
\* exactly once, on the step that returns the results, when the batch succeeds.
C30_CsvOnlyAfterSuccess ==
    [][/\ csv_out' # csv_out =>
              /\ ~SomeEvaluationRaised /\ ~csv_out.written
              /\ bpc' = "returned" /\ error' = "none" /\ Len(results') = ND'
       /\ (bpc # "returned" /\ bpc' = "returned" /\ output_csv) => csv_out'.written
       /\ bpc' = "raised" => csv_out' = NoCsv]_vars

====
